---- MODULE Spec2Model ----
(***************************************************************************)
(* A model of the image cache of obsidian-image-plugin: CacheManager       *)
(* (cacheManager.ts), its index, its aggregates, its blob files, the       *)
(* persisted index document and the eviction pass.                         *)
(*                                                                         *)
(* Every public method is one action that runs the whole method, the       *)
(* methods it awaits included (add runs saveCacheIndex and checkAndCleanup,*)
(* cleanup runs remove for every candidate).  The outcomes of the storage  *)
(* adapter (vault.adapter.writeBinary / remove / write), which is not part *)
(* of the repository, are inputs of the actions.                           *)
(***************************************************************************)
EXTENDS Integers, Sequences, FiniteSets, TLC

(***************************************************************************)
(* Bounds of the model.                                                    *)
(***************************************************************************)
\* The clock (Date.now()) advances a day at a time and stops after MaxClock days.
MaxClock == 1
\* get is not called on an entry whose accessCount has reached MaxAccess.
MaxAccess == 2
\* add is not called once metadata.totalSize would pass MaxTotalMB megabytes.
MaxTotalMB == 2
\* add is called on a key that is in the index at most MaxReAdds times more
\* often than such a key is dropped again.
MaxReAdds == 1

(***************************************************************************)
(* Program constants.                                                      *)
(***************************************************************************)
\* 24 * 60 * 60 * 1000, the milliseconds of a day
DayMs == 86400000
\* 1024 * 1024, the bytes of a megabyte
MB == 1048576

\* The keys (URLs) the callers use, and the GitHub URLs they attach.
Keys == {"u1", "u2"}
GitHubUrls == {"gh"}
\* githubUrl?: string is undefined
Undefined == "undefined"
\* byteLength of the payloads handed to add
PayloadSizes == {MB \div 2, MB}

Strategies == {"lru", "lfu", "fifo", "smart"}
\* ImagePluginSettings, the cache part
\* ImagePluginSettings, the cache part: a ceiling of 1 MB with every strategy
\* and a protection period of 0 or 1 days, the cache disabled, and no ceiling
Settings(enableCache, maxCacheSize, cacheProtectionDays, cacheStrategy) ==
    [enableCache |-> enableCache, maxCacheSize |-> maxCacheSize,
     cacheProtectionDays |-> cacheProtectionDays, cacheStrategy |-> cacheStrategy]

SettingsSet ==
    {Settings(TRUE, 1, d, s) : d \in {0, 1}, s \in Strategies}
        \cup {Settings(FALSE, 1, 1, "smart"), Settings(TRUE, 0, 1, "smart")}

VARIABLES
    cacheIndex,     \* Map<string, CachedImage>, in insertion order
    cacheMetadata,  \* CacheMetadata
    settings,       \* ImagePluginSettings
    blobs,          \* the files of the cache directory: path -> byte length
    persisted,      \* the index document index.json, or NoDoc
    now,            \* Date.now()
    last,           \* the last call: its name, argument, result, eviction pass
    tasks,          \* the async calls in flight: id -> position and locals
    downloadQueue,  \* ImageDownloader.downloadQueue: url -> id of its promise
    evaluated       \* the pure function last evaluated: its argument and value

vars == <<cacheIndex, cacheMetadata, settings, blobs, persisted, now, last,
          tasks, downloadQueue, evaluated>>

\* the state outside the CacheManager, its storage and the clock
others == <<tasks, downloadQueue, evaluated>>

NoDoc == [missing |-> TRUE]
NoPass == [ran |-> FALSE]


(***************************************************************************)
(* Map<string, CachedImage>: a sequence of entries with distinct url, in   *)
(* insertion order (the order Map.values() iterates in).                   *)
(***************************************************************************)
MapHas(index, url) == \E i \in 1..Len(index) : index[i].url = url

MapPos(index, url) == CHOOSE i \in 1..Len(index) : index[i].url = url

MapGet(index, url) == index[MapPos(index, url)]

\* Map.set: an existing key keeps its place, a new key goes last
MapSet(index, url, cached) ==
    IF MapHas(index, url)
    THEN [index EXCEPT ![MapPos(index, url)] = cached]
    ELSE Append(index, cached)

MapDelete(index, url) == SelectSeq(index, LAMBDA c : c.url # url)

(***************************************************************************)
(* The cache directory: a function from the paths of the files present to  *)
(* their byte length.                                                      *)
(***************************************************************************)
NoBlobs == [p \in {} |-> 0]

\* vault.adapter.writeBinary(localPath, data)
writeBinary(files, path, size) ==
    [p \in (DOMAIN files) \cup {path} |-> IF p = path THEN size ELSE files[p]]

\* vault.adapter.remove(localPath), when it succeeds
adapterRemove(files, path) == [p \in (DOMAIN files) \ {path} |-> files[p]]

(***************************************************************************)
(* generateFilename.  A string is the sequence of its UTF-16 code units    *)
(* (charCodeAt).  The keys of the model stand for these URLs, which the    *)
(* URL parser leaves as they are written:                                  *)
(*   u1  https://a/Aa.png     u2  https://a/b.png     u3  https://a/BB.png *)
(* u4 stands for the key Aa.png, which is not a URL, and c1 and c2 for the *)
(* keys cache://c.png and cache://d.png of two pasted images.              *)
(***************************************************************************)
UrlText(url) ==
    CASE url = "u1" ->
           <<104, 116, 116, 112, 115, 58, 47, 47, 97, 47, 65, 97, 46, 112, 110, 103>>
      [] url = "u2" ->
           <<104, 116, 116, 112, 115, 58, 47, 47, 97, 47, 98, 46, 112, 110, 103>>
      [] url = "u3" ->
           <<104, 116, 116, 112, 115, 58, 47, 47, 97, 47, 66, 66, 46, 112, 110, 103>>
      [] url = "u4" ->
           <<65, 97, 46, 112, 110, 103>>
      [] url = "c1" ->
           <<99, 97, 99, 104, 101, 58, 47, 47, 99, 46, 112, 110, 103>>
      [] url = "c2" ->
           <<99, 97, 99, 104, 101, 58, 47, 47, 100, 46, 112, 110, 103>>

\* 2^16: a 32-bit integer is kept as its two 16-bit halves [hi, lo]
Half == 65536

\* one round of the loop of simpleHash: hash = (hash << 5) - hash + char, cut
\* to 32 bits by hash & hash
hashStep(hash, char) ==
    LET lo == hash.lo * 31 + char
    IN [hi |-> (hash.hi * 31 + lo \div Half) % Half, lo |-> lo % Half]

RECURSIVE hashLoop(_, _)
hashLoop(hash, str) ==
    IF str = <<>> THEN hash ELSE hashLoop(hashStep(hash, Head(str)), Tail(str))

\* Math.abs of the signed 32-bit integer
abs32(hash) ==
    IF hash.hi < Half \div 2
    THEN hash
    ELSE [hi |-> (Half - 1 - hash.hi + (IF hash.lo = 0 THEN 1 ELSE 0)) % Half,
          lo |-> (Half - hash.lo) % Half]

\* the code unit of a digit of toString(36): 0-9, a-z
digit36(d) == IF d < 10 THEN 48 + d ELSE 87 + d

\* Number.prototype.toString(36) of a number 0 .. 2^32 - 1
RECURSIVE toString36(_)
toString36(n) ==
    LET rest == (n.hi % 36) * Half + n.lo
        quotient == [hi |-> n.hi \div 36, lo |-> rest \div 36]
        last36 == <<digit36(rest % 36)>>
    IN IF quotient.hi = 0 /\ quotient.lo = 0
       THEN last36
       ELSE toString36(quotient) \o last36

\* simpleHash(str)
simpleHash(str) == toString36(abs32(hashLoop([hi |-> 0, lo |-> 0], str)))

\* the places of the code unit char in str
PlacesOf(str, char) == {i \in 1..Len(str) : str[i] = char}

Max(S) == CHOOSE m \in S : \A n \in S : n <= m

Min(S) == CHOOSE m \in S : \A n \in S : m <= n

\* code units: letters, and what else a scheme may hold (digits, + - .)
Alpha == (65..90) \cup (97..122)

SchemeChars == Alpha \cup (48..57) \cup {43, 45, 46}

\* new URL(url) returns: the string starts with a scheme and ":".  Without a
\* base a string with no scheme is not parsed and the constructor throws a
\* TypeError.  (What follows the scheme is well-formed in the strings of the
\* model.)
canParse(str) ==
    \E k \in PlacesOf(str, 58) :
        /\ k > 1
        /\ str[1] \in Alpha
        /\ \A j \in 2..(k - 1) : str[j] \in SchemeChars

\* http, https, ws, wss, ftp, file: the schemes whose URLs always have a path
SpecialSchemes ==
    {<<104, 116, 116, 112>>, <<104, 116, 116, 112, 115>>, <<119, 115>>,
     <<119, 115, 115>>, <<102, 116, 112>>, <<102, 105, 108, 101>>}

\* the URL has a scheme, and one of its own (as cache: has)
hasOtherScheme(str) ==
    /\ canParse(str)
    /\ SubSeq(str, 1, Min(PlacesOf(str, 58)) - 1) \notin SpecialSchemes

\* new URL(url).pathname: from the "/" that ends the host to the "?" or "#";
\* when there is none, "/" for a special scheme and "" for another
pathname(str) ==
    LET slashes == {i \in PlacesOf(str, 47) : Cardinality({j \in PlacesOf(str, 47) : j < i}) >= 2}
        from == Min(slashes)
        ends == {i \in PlacesOf(str, 63) \cup PlacesOf(str, 35) : i > from}
    IN IF slashes = {}
       THEN IF hasOtherScheme(str) THEN <<>> ELSE <<47>>
       ELSE SubSeq(str, from, IF ends = {} THEN Len(str) ELSE Min(ends) - 1)

\* pathname.split(".").pop() || "png"
extensionOf(path) ==
    LET dots == PlacesOf(path, 46)
        popped == IF dots = {} THEN path ELSE SubSeq(path, Max(dots) + 1, Len(path))
    IN IF popped = <<>> THEN <<112, 110, 103>> ELSE popped

\* generateFilename(url): `${hash}.${extension}`, or the TypeError of new URL
generateFilename(str) ==
    IF ~canParse(str)
    THEN [threw |-> TRUE]
    ELSE [threw |-> FALSE,
          value |-> simpleHash(str) \o <<46>> \o extensionOf(pathname(str))]

\* this.cacheDir
cacheDir == ".obsidian/plugins/obsidian-image-plugin/cache"

\* the file names of the URLs of the model
filename == [url \in {"u1", "u2", "u3", "u4", "c1", "c2"} |-> generateFilename(UrlText(url))]

\* `${this.cacheDir}/${filename}`
localPath(url) == <<cacheDir, filename[url].value>>

(***************************************************************************)
(* The state the methods work on, as one record, so that a method that     *)
(* awaits other methods threads it through them.                           *)
(***************************************************************************)
Store(index, meta, files, doc) ==
    [index |-> index, meta |-> meta, blobs |-> files, persisted |-> doc]

(***************************************************************************)
(* index.json.  The text JSON.stringify writes is modelled by its parse    *)
(* tree: the metadata object, and the index object as the list of its      *)
(* properties <<key, value>> in the order Object.fromEntries created them  *)
(* (the keys are URLs, never array indices, so the order is the Map's).    *)
(* JSON.stringify leaves out a property whose value is undefined.          *)
(***************************************************************************)
\* index.json as found damaged: text that JSON.parse rejects
CorruptDoc == [corrupt |-> TRUE]

\* Object.fromEntries(this.cacheIndex)
ObjectFromEntries(index) == [i \in 1..Len(index) |-> <<index[i].url, index[i]>>]

\* what JSON.stringify keeps of a CachedImage
StringifyCached(cached) ==
    IF cached.githubUrl = Undefined
    THEN [f \in (DOMAIN cached) \ {"githubUrl"} |-> cached[f]]
    ELSE cached

\* JSON.stringify(data, null, 2)
JSONstringify(data) ==
    [metadata |-> data.metadata,
     index |-> [i \in 1..Len(data.index) |->
                   <<data.index[i][1], StringifyCached(data.index[i][2])>>]]

\* the document saveCacheIndex writes for an index and its metadata
IndexDocument(meta, index) ==
    JSONstringify([metadata |-> meta, index |-> ObjectFromEntries(index)])

\* saveCacheIndex: writes {metadata, index}; a failed write is caught and logged
saveCacheIndex(st, saveOk) ==
    IF saveOk
    THEN [st EXCEPT !.persisted = IndexDocument(st.meta, st.index)]
    ELSE st

\* `cached as CachedImage`: reading a property the document does not hold
\* gives undefined
asCachedImage(value) ==
    [url |-> value.url, localPath |-> value.localPath,
     githubUrl |-> IF "githubUrl" \in DOMAIN value THEN value.githubUrl ELSE Undefined,
     size |-> value.size, createdAt |-> value.createdAt,
     lastAccessedAt |-> value.lastAccessedAt, accessCount |-> value.accessCount]

\* the loop of loadCacheIndex over Object.entries(parsed.index)
RECURSIVE loadEntries(_, _)
loadEntries(index, entries) ==
    IF entries = <<>>
    THEN index
    ELSE loadEntries(MapSet(index, Head(entries)[1], asCachedImage(Head(entries)[2])),
                     Tail(entries))

\* (mutant: the metadata of the document is not taken over)
loadCacheIndexIn_FreshMetadata(st) ==
    IF st.persisted \in {NoDoc, CorruptDoc}
    THEN st
    ELSE [st EXCEPT !.index = loadEntries(<<>>, st.persisted.index)]

\* loadCacheIndex, on the store of a newly constructed CacheManager: a read or
\* a parse that throws is caught and leaves the store as constructed
loadCacheIndexIn(st) ==
    IF st.persisted \in {NoDoc, CorruptDoc}
    THEN st
    ELSE [st EXCEPT !.meta = st.persisted.metadata,
                    !.index = loadEntries(<<>>, st.persisted.index)]

(***************************************************************************)
(* remove(url), on a store.  delOk: vault.adapter.remove succeeds.         *)
(***************************************************************************)
\* (mutant: remove leaves imageCount as it is)
removeIn_KeepsCount(st, url, delOk, saveOk) ==
    IF ~MapHas(st.index, url)
    THEN [st |-> st, ok |-> FALSE]
    ELSE IF ~delOk
    THEN [st |-> st, ok |-> FALSE]
    ELSE LET cached == MapGet(st.index, url)
             meta1 == [st.meta EXCEPT !.totalSize = @ - cached.size]
             st1 == Store(MapDelete(st.index, url), meta1,
                          adapterRemove(st.blobs, cached.localPath), st.persisted)
         IN [st |-> saveCacheIndex(st1, saveOk), ok |-> TRUE]

removeIn(st, url, delOk, saveOk) ==
    IF ~MapHas(st.index, url)
    THEN [st |-> st, ok |-> FALSE]
    ELSE IF ~delOk
    THEN [st |-> st, ok |-> FALSE]
    ELSE LET cached == MapGet(st.index, url)
             meta1 == [st.meta EXCEPT !.totalSize = @ - cached.size,
                                      !.imageCount = @ - 1]
             st1 == Store(MapDelete(st.index, url), meta1,
                          adapterRemove(st.blobs, cached.localPath), st.persisted)
         IN [st |-> saveCacheIndex(st1, saveOk), ok |-> TRUE]

(***************************************************************************)
(* getCleanupCandidates: the entries not accessed within the protection    *)
(* period, in the index's order.                                           *)
(***************************************************************************)
protectionMs(sett) == sett.cacheProtectionDays * DayMs

\* (mutant: the comparison of the protection test is <= instead of <)
getCleanupCandidates_Inclusive(index, t, sett) ==
    SelectSeq(index, LAMBDA c : ~(t - c.lastAccessedAt <= protectionMs(sett)))

\* (mutant: every entry is a candidate)
getCleanupCandidates_All(index, t, sett) ==
    index

getCleanupCandidates(index, t, sett) ==
    SelectSeq(index, LAMBDA c : ~(t - c.lastAccessedAt < protectionMs(sett)))

(***************************************************************************)
(* calculateSmartScore, in thousandths (fixed point, each term rounded     *)
(* down).  Math.log(n) * 100 is tabulated for the n the model reaches.     *)
(* The timestamps of the model are whole days, so the two day counts are   *)
(* whole numbers.                                                          *)
(***************************************************************************)
Log100(n) ==
    CASE n = 1 -> 0
      [] n = 2 -> 69314
      [] n = 3 -> 109861
      [] n = 4 -> 138629
      [] n = 5 -> 160943
      [] n = 6 -> 179175
      [] n = 7 -> 194591
      [] OTHER -> 207944

\* (mutant: the frequency term is subtracted)
calculateSmartScore_FrequencyPenalty(cached, t) ==
    LET daysSinceAccess == (t - cached.lastAccessedAt) \div DayMs
        daysSinceCreation == (t - cached.createdAt) \div DayMs
        recencyScore == 1000000 \div (daysSinceAccess + 1)
        frequencyScore == Log100(cached.accessCount + 1)
        sizePenalty == (cached.size * 1000) \div MB
        agePenalty == daysSinceCreation * 2000
    IN recencyScore - frequencyScore - sizePenalty - agePenalty

calculateSmartScore(cached, t) ==
    LET daysSinceAccess == (t - cached.lastAccessedAt) \div DayMs
        daysSinceCreation == (t - cached.createdAt) \div DayMs
        \* 1000 / (daysSinceAccess + 1)
        recencyScore == 1000000 \div (daysSinceAccess + 1)
        \* Math.log(accessCount + 1) * 100
        frequencyScore == Log100(cached.accessCount + 1)
        \* size / (1024 * 1024)
        sizePenalty == (cached.size * 1000) \div MB
        \* daysSinceCreation * 2
        agePenalty == daysSinceCreation * 2000
    IN recencyScore + frequencyScore - sizePenalty - agePenalty

(***************************************************************************)
(* sortByStrategy: Array.prototype.sort with the comparator a.f - b.f, a   *)
(* stable sort into ascending order of f.                                  *)
(***************************************************************************)
StrategyKey(cached, strategy, t) ==
    CASE strategy = "lru" -> cached.lastAccessedAt
      [] strategy = "lfu" -> cached.accessCount
      [] strategy = "fifo" -> cached.createdAt
      [] strategy = "smart" -> calculateSmartScore(cached, t)

RECURSIVE InsertByKey(_, _, _, _)
InsertByKey(sorted, c, strategy, t) ==
    IF sorted = <<>>
    THEN <<c>>
    ELSE IF StrategyKey(Head(sorted), strategy, t) <= StrategyKey(c, strategy, t)
    THEN <<Head(sorted)>> \o InsertByKey(Tail(sorted), c, strategy, t)
    ELSE <<c>> \o sorted

RECURSIVE StableSort(_, _, _)
StableSort(candidates, strategy, t) ==
    IF candidates = <<>>
    THEN <<>>
    ELSE InsertByKey(StableSort(SubSeq(candidates, 1, Len(candidates) - 1), strategy, t),
                     candidates[Len(candidates)], strategy, t)

sortByStrategy(candidates, strategy, t) ==
    IF strategy \in Strategies
    THEN StableSort(candidates, strategy, t)
    ELSE candidates

(***************************************************************************)
(* cleanup(bytesToFree).  delFail: the keys whose blob the adapter fails   *)
(* to delete during this call.                                             *)
(***************************************************************************)
\* (mutant: the loop does not stop when enough bytes are freed)
RECURSIVE cleanupLoop_NoEarlyStop(_, _, _, _, _, _, _, _)
cleanupLoop_NoEarlyStop(st, sorted, bytesToFree, freedBytes, evicted, failed, delFail, saveOk) ==
    IF sorted = <<>>
    THEN [st |-> st, freedBytes |-> freedBytes, evicted |-> evicted, failed |-> failed]
    ELSE LET cached == Head(sorted)
             r == removeIn(st, cached.url, cached.url \notin delFail, saveOk)
         IN cleanupLoop_NoEarlyStop(r.st, Tail(sorted), bytesToFree,
                        IF r.ok THEN freedBytes + cached.size ELSE freedBytes,
                        IF r.ok THEN Append(evicted, cached.url) ELSE evicted,
                        IF r.ok THEN failed ELSE Append(failed, cached.url),
                        delFail, saveOk)

\* (mutant: the loop counts the size of an entry whose removal failed)
RECURSIVE cleanupLoop_CountsFailed(_, _, _, _, _, _, _, _)
cleanupLoop_CountsFailed(st, sorted, bytesToFree, freedBytes, evicted, failed, delFail, saveOk) ==
    IF sorted = <<>> \/ freedBytes >= bytesToFree
    THEN [st |-> st, freedBytes |-> freedBytes, evicted |-> evicted, failed |-> failed]
    ELSE LET cached == Head(sorted)
             r == removeIn(st, cached.url, cached.url \notin delFail, saveOk)
         IN cleanupLoop_CountsFailed(r.st, Tail(sorted), bytesToFree,
                        freedBytes + cached.size,
                        IF r.ok THEN Append(evicted, cached.url) ELSE evicted,
                        IF r.ok THEN failed ELSE Append(failed, cached.url),
                        delFail, saveOk)

\* the loop of cleanup; evicted and failed list, in the order of the loop, the
\* keys whose remove returned true and false
RECURSIVE cleanupLoop(_, _, _, _, _, _, _, _)
cleanupLoop(st, sorted, bytesToFree, freedBytes, evicted, failed, delFail, saveOk) ==
    IF sorted = <<>> \/ freedBytes >= bytesToFree
    THEN [st |-> st, freedBytes |-> freedBytes, evicted |-> evicted, failed |-> failed]
    ELSE LET cached == Head(sorted)
             r == removeIn(st, cached.url, cached.url \notin delFail, saveOk)
         IN cleanupLoop(r.st, Tail(sorted), bytesToFree,
                        IF r.ok THEN freedBytes + cached.size ELSE freedBytes,
                        IF r.ok THEN Append(evicted, cached.url) ELSE evicted,
                        IF r.ok THEN failed ELSE Append(failed, cached.url),
                        delFail, saveOk)

\* What one call of cleanup did: the index and totalSize it started from, its
\* argument, the keys of its candidates, the keys it removed and failed to
\* remove, and the value it returned.
Pass(st, bytesToFree, candidates, evicted, failed, freedBytes) ==
    [ran |-> TRUE, before |-> st.index, totalBefore |-> st.meta.totalSize,
     bytesToFree |-> bytesToFree,
     candidates |-> {candidates[i].url : i \in 1..Len(candidates)},
     evicted |-> evicted, failed |-> failed, returned |-> freedBytes]

cleanup(st, bytesToFree, t, sett, delFail, saveOk) ==
    LET candidates == getCleanupCandidates(st.index, t, sett)
    IN IF candidates = <<>>
       THEN [st |-> st, pass |-> Pass(st, bytesToFree, candidates, <<>>, <<>>, 0)]
       ELSE LET sorted == sortByStrategy(candidates, sett.cacheStrategy, t)
                r == cleanupLoop(st, sorted, bytesToFree, 0, <<>>, <<>>, delFail, saveOk)
                st1 == [r.st EXCEPT !.meta.lastCleanup = t]
            IN [st |-> saveCacheIndex(st1, saveOk),
                pass |-> Pass(st, bytesToFree, candidates, r.evicted, r.failed,
                              r.freedBytes)]

(***************************************************************************)
(* checkAndCleanup                                                         *)
(***************************************************************************)
maxSizeBytes(sett) == sett.maxCacheSize * MB

\* (mutant: enableCache is not looked at)
needsCleanup_IgnoresEnable(st, sett) ==
    /\ maxSizeBytes(sett) > 0
    /\ st.meta.totalSize > maxSizeBytes(sett)

needsCleanup(st, sett) ==
    /\ sett.enableCache
    /\ maxSizeBytes(sett) > 0
    /\ st.meta.totalSize > maxSizeBytes(sett)

checkAndCleanup(st, t, sett, delFail, saveOk) ==
    IF needsCleanup(st, sett)
    THEN cleanup(st, st.meta.totalSize - maxSizeBytes(sett), t, sett, delFail, saveOk)
    ELSE [st |-> st, pass |-> NoPass]

(***************************************************************************)
(* The calls.  last records the call, its argument and what it returned:   *)
(* Ret(kind, value), kind one of "entry", "undefined", "boolean", "void",  *)
(* "throws".                                                               *)
(***************************************************************************)
Ret(kind, value) == [kind |-> kind, value |-> value]

\* arg: the byte length and the githubUrl a call was given (0, Undefined: none)
Arg(size, githubUrl) == [size |-> size, githubUrl |-> githubUrl]

NoArg == Arg(0, Undefined)

Call(op, url, arg, ret, pass) ==
    [op |-> op, url |-> url, arg |-> arg, ret |-> ret, pass |-> pass]

Current == Store(cacheIndex, cacheMetadata, blobs, persisted)

Become(st) ==
    /\ cacheIndex' = st.index
    /\ cacheMetadata' = st.meta
    /\ blobs' = st.blobs
    /\ persisted' = st.persisted

\* (mutant: a new entry starts with accessCount 0)
NewEntry_Unread(url, size, githubUrl, t) ==
    [url |-> url, localPath |-> localPath(url), githubUrl |-> githubUrl,
     size |-> size, createdAt |-> t, lastAccessedAt |-> t, accessCount |-> 0]

\* the CachedImage add builds
NewEntry(url, size, githubUrl, t) ==
    [url |-> url, localPath |-> localPath(url), githubUrl |-> githubUrl,
     size |-> size, createdAt |-> t, lastAccessedAt |-> t, accessCount |-> 1]

\* no call in flight, an empty Map
NoTasks == <<>>

\* no pure function evaluated yet
NotEvaluated == [fn |-> "none"]

\* constructor
InitObjects ==
    /\ cacheIndex = <<>>
    /\ cacheMetadata = [totalSize |-> 0, imageCount |-> 0, lastCleanup |-> 0,
                        version |-> "1.0.0"]
    /\ settings \in SettingsSet
    /\ blobs = NoBlobs
    /\ persisted = NoDoc
    /\ now = 0
    /\ last = Call("new", "", NoArg, Ret("void", 0), NoPass)
    /\ tasks = NoTasks
    /\ downloadQueue = NoTasks

Init == InitObjects /\ evaluated = NotEvaluated

\* time passes between two calls
Tick ==
    /\ now < MaxClock * DayMs
    /\ now' = now + DayMs
    /\ last' = Call("tick", "", NoArg, Ret("void", 0), NoPass)
    /\ UNCHANGED <<cacheIndex, cacheMetadata, settings, blobs, persisted, others>>

\* updateSettings(settings), and the settings tab writing the shared object
updateSettings(sett) ==
    /\ sett # settings
    /\ settings' = sett
    /\ last' = Call("updateSettings", "", NoArg, Ret("void", 0), NoPass)
    /\ UNCHANGED <<cacheIndex, cacheMetadata, blobs, persisted, now, others>>

\* (mutant: a hit counts the access and leaves lastAccessedAt as it was)
getIn_NoTouch(st, url, t, saveOk) ==
    IF ~MapHas(st.index, url)
    THEN [st |-> st, ret |-> Ret("undefined", 0)]
    ELSE LET cached == [MapGet(st.index, url) EXCEPT !.accessCount = @ + 1]
             st1 == [st EXCEPT !.index = MapSet(st.index, url, cached)]
         IN [st |-> saveCacheIndex(st1, saveOk), ret |-> Ret("entry", cached)]

\* get(url)
getIn(st, url, t, saveOk) ==
    IF ~MapHas(st.index, url)
    THEN [st |-> st, ret |-> Ret("undefined", 0)]
    ELSE LET cached == [MapGet(st.index, url) EXCEPT !.lastAccessedAt = t,
                                                    !.accessCount = @ + 1]
             st1 == [st EXCEPT !.index = MapSet(st.index, url, cached)]
         IN [st |-> saveCacheIndex(st1, saveOk), ret |-> Ret("entry", cached)]

get(url, saveOk) ==
    /\ MapHas(cacheIndex, url) => MapGet(cacheIndex, url).accessCount < MaxAccess
    /\ LET r == getIn(Current, url, now, saveOk)
       IN /\ Become(r.st)
          /\ last' = Call("get", url, NoArg, r.ret, NoPass)
    /\ UNCHANGED <<settings, now, others>>

\* (mutant: a rejected writeBinary is ignored, the entry is added without blob)
addIn_IgnoresWriteFailure(st, url, size, githubUrl, t, sett, wrOk, saveOk, delFail) ==
    IF filename[url].threw
    THEN [st |-> st, ret |-> Ret("throws", 0), pass |-> NoPass]
    ELSE
    LET cached == NewEntry(url, size, githubUrl, t)
        meta1 == [st.meta EXCEPT !.totalSize = @ + cached.size,
                                 !.imageCount = @ + 1]
        st1 == Store(MapSet(st.index, url, cached), meta1,
                     IF wrOk THEN writeBinary(st.blobs, cached.localPath, size)
                     ELSE st.blobs,
                     st.persisted)
        r == checkAndCleanup(saveCacheIndex(st1, saveOk), t, sett, delFail, saveOk)
    IN [st |-> r.st, ret |-> Ret("entry", cached), pass |-> r.pass]

\* add(url, data, githubUrl).  wrOk: vault.adapter.writeBinary succeeds.
\* generateFilename is called first: what it throws, add throws.
addIn(st, url, size, githubUrl, t, sett, wrOk, saveOk, delFail) ==
    IF filename[url].threw \/ ~wrOk
    THEN [st |-> st, ret |-> Ret("throws", 0), pass |-> NoPass]
    ELSE LET cached == NewEntry(url, size, githubUrl, t)
             meta1 == [st.meta EXCEPT !.totalSize = @ + cached.size,
                                      !.imageCount = @ + 1]
             st1 == Store(MapSet(st.index, url, cached), meta1,
                          writeBinary(st.blobs, cached.localPath, size), st.persisted)
             r == checkAndCleanup(saveCacheIndex(st1, saveOk), t, sett, delFail, saveOk)
         IN [st |-> r.st, ret |-> Ret("entry", cached), pass |-> r.pass]

add(url, size, githubUrl, wrOk, saveOk, delFail) ==
    /\ cacheMetadata.totalSize + size <= MaxTotalMB * MB
    /\ MapHas(cacheIndex, url) => cacheMetadata.imageCount - Len(cacheIndex) < MaxReAdds
    /\ LET r == addIn(Current, url, size, githubUrl, now, settings, wrOk, saveOk, delFail)
       IN /\ Become(r.st)
          /\ last' = Call("add", url, Arg(size, githubUrl), r.ret, r.pass)
    /\ UNCHANGED <<settings, now, others>>

\* remove(url)
remove(url, delOk, saveOk) ==
    /\ LET r == removeIn(Current, url, delOk, saveOk)
       IN /\ Become(r.st)
          /\ last' = Call("remove", url, NoArg, Ret("boolean", r.ok), NoPass)
    /\ UNCHANGED <<settings, now, others>>

\* checkAndCleanup(), from the settings tab
CheckAndCleanup(saveOk, delFail) ==
    /\ LET r == checkAndCleanup(Current, now, settings, delFail, saveOk)
       IN /\ Become(r.st)
          /\ last' = Call("checkAndCleanup", "", NoArg, Ret("void", 0), r.pass)
    /\ UNCHANGED <<settings, now, others>>

\* clearAll(): remove for every key of a snapshot of the keys
RECURSIVE clearLoop(_, _, _, _)
clearLoop(st, urls, delFail, saveOk) ==
    IF urls = <<>>
    THEN st
    ELSE clearLoop(removeIn(st, Head(urls), Head(urls) \notin delFail, saveOk).st,
                   Tail(urls), delFail, saveOk)

clearAll(saveOk, delFail) ==
    /\ cacheIndex # <<>>
    /\ LET urls == [i \in 1..Len(cacheIndex) |-> cacheIndex[i].url]
       IN Become(clearLoop(Current, urls, delFail, saveOk))
    /\ last' = Call("clearAll", "", NoArg, Ret("void", 0), NoPass)
    /\ UNCHANGED <<settings, now, others>>

\* (mutant: attaching the URL counts as an access)
updateGitHubUrlIn_Counts(st, url, githubUrl, saveOk) ==
    IF ~MapHas(st.index, url)
    THEN [st |-> st, ok |-> FALSE]
    ELSE LET cached == [MapGet(st.index, url) EXCEPT !.githubUrl = githubUrl,
                                                    !.accessCount = @ + 1]
             st1 == [st EXCEPT !.index = MapSet(st.index, url, cached)]
         IN [st |-> saveCacheIndex(st1, saveOk), ok |-> TRUE]

\* (mutant: a key that is not in the index gets an entry)
updateGitHubUrlIn_Creates(st, url, githubUrl, saveOk) ==
    LET cached == IF MapHas(st.index, url)
                  THEN [MapGet(st.index, url) EXCEPT !.githubUrl = githubUrl]
                  ELSE [url |-> url, localPath |-> localPath(url), githubUrl |-> githubUrl,
                        size |-> 0, createdAt |-> 0, lastAccessedAt |-> 0,
                        accessCount |-> 0]
        st1 == [st EXCEPT !.index = MapSet(st.index, url, cached)]
    IN [st |-> saveCacheIndex(st1, saveOk), ok |-> TRUE]

\* updateGitHubUrl(url, githubUrl)
updateGitHubUrlIn(st, url, githubUrl, saveOk) ==
    IF ~MapHas(st.index, url)
    THEN [st |-> st, ok |-> FALSE]
    ELSE LET cached == [MapGet(st.index, url) EXCEPT !.githubUrl = githubUrl]
             st1 == [st EXCEPT !.index = MapSet(st.index, url, cached)]
         IN [st |-> saveCacheIndex(st1, saveOk), ok |-> TRUE]

updateGitHubUrl(url, githubUrl, saveOk) ==
    /\ LET r == updateGitHubUrlIn(Current, url, githubUrl, saveOk)
       IN /\ Become(r.st)
          /\ last' = Call("updateGitHubUrl", url, Arg(0, githubUrl), Ret("boolean", r.ok),
                          NoPass)
    /\ UNCHANGED <<settings, now, others>>

(***************************************************************************)
(* Spec: the cache under callers that attach no GitHub URL.  The adapter   *)
(* may fail to delete a blob; its writes (writeBinary, write) succeed.     *)
(***************************************************************************)
Next ==
    \/ Tick
    \/ \E sett \in SettingsSet : updateSettings(sett)
    \/ \E url \in Keys : get(url, TRUE)
    \/ \E url \in Keys, size \in PayloadSizes, delFail \in SUBSET Keys :
          add(url, size, Undefined, TRUE, TRUE, delFail)
    \/ \E url \in Keys, delOk \in BOOLEAN : remove(url, delOk, TRUE)
    \/ \E delFail \in SUBSET Keys : CheckAndCleanup(TRUE, delFail)
    \/ \E delFail \in SUBSET Keys : clearAll(TRUE, delFail)

Spec == Init /\ [][Next]_vars

(***************************************************************************)
(* SpecUrl: the cache under callers that add with and without a GitHub URL *)
(* and attach one later (the downloader, the paste handler, the sync       *)
(* command), with the settings left as they were loaded.  A caller that    *)
(* adds with a GitHub URL adds an uploaded image under that URL as its key *)
(* (add(githubUrl, data, githubUrl)); the URL attached later is the one    *)
(* the upload returned.  The adapter's calls succeed.                      *)
(***************************************************************************)
UrlSettingsSet ==
    {Settings(TRUE, 0, 1, "smart"), Settings(TRUE, 1, 1, "lru"), Settings(TRUE, 1, 0, "lfu")}

InitUrl == Init /\ settings \in UrlSettingsSet

NextUrl ==
    \/ Tick
    \/ \E url \in Keys : get(url, TRUE)
    \/ \E url \in Keys, size \in PayloadSizes :
          \E githubUrl \in {url, Undefined} : add(url, size, githubUrl, TRUE, TRUE, {})
    \/ \E url \in Keys : remove(url, TRUE, TRUE)
    \/ \E url \in Keys, githubUrl \in GitHubUrls : updateGitHubUrl(url, githubUrl, TRUE)

SpecUrl == InitUrl /\ [][NextUrl]_vars

(***************************************************************************)
(* SpecFail: the cache on a storage adapter whose writes can fail: a call  *)
(* of add may have its writeBinary rejected, and any call may have its     *)
(* writes of index.json rejected.  Deletions succeed.                      *)
(***************************************************************************)
FailSettingsSet == {Settings(TRUE, 1, 0, "fifo"), Settings(TRUE, 0, 1, "smart")}

InitFail == Init /\ settings \in FailSettingsSet

NextFail ==
    \/ \E url \in Keys, saveOk \in BOOLEAN : get(url, saveOk)
    \/ \E url \in Keys, size \in PayloadSizes, wrOk \in BOOLEAN, saveOk \in BOOLEAN :
          add(url, size, Undefined, wrOk, saveOk, {})
    \/ \E url \in Keys, saveOk \in BOOLEAN : remove(url, TRUE, saveOk)

SpecFail == InitFail /\ [][NextFail]_vars

(***************************************************************************)
(* The plugin is loaded again: main.ts constructs a CacheManager over the  *)
(* cache directory as it is and awaits initialize().                       *)
(***************************************************************************)
\* the store of a newly constructed CacheManager over the files found
Constructed(files, doc, t) ==
    Store(<<>>,
          [totalSize |-> 0, imageCount |-> 0, lastCleanup |-> t, version |-> "1.0.0"],
          files, doc)

\* (mutant: a document that cannot be parsed makes initialize fail)
initializeIn_Fatal(files, doc, t, sett, delFail, saveOk) ==
    IF doc = CorruptDoc
    THEN [st |-> Constructed(files, doc, t), ret |-> Ret("throws", 0), pass |-> NoPass]
    ELSE LET r == checkAndCleanup(loadCacheIndexIn(Constructed(files, doc, t)),
                                  t, sett, delFail, saveOk)
         IN [st |-> r.st, ret |-> Ret("void", 0), pass |-> r.pass]

\* initialize(): ensureCacheDir, loadCacheIndex, checkAndCleanup
initializeIn(files, doc, t, sett, delFail, saveOk) ==
    LET r == checkAndCleanup(loadCacheIndexIn(Constructed(files, doc, t)),
                             t, sett, delFail, saveOk)
    IN [st |-> r.st, ret |-> Ret("void", 0), pass |-> r.pass]

\* damaged: index.json is found with text that does not parse
initialize(damaged, saveOk, delFail) ==
    /\ damaged => persisted \notin {NoDoc, CorruptDoc}
    /\ LET doc == IF damaged THEN CorruptDoc ELSE persisted
           r == initializeIn(blobs, doc, now, settings, delFail, saveOk)
       IN /\ Become(r.st)
          /\ last' = Call("initialize", "", NoArg, r.ret, r.pass)
    /\ UNCHANGED <<settings, now, others>>

\* (mutant: add persists the index with the new entry before it writes the blob)
addInterruptedIn_PersistFirst(st, url, size, githubUrl, t) ==
    [st EXCEPT !.persisted =
        IndexDocument([st.meta EXCEPT !.totalSize = @ + size, !.imageCount = @ + 1],
                      MapSet(st.index, url, NewEntry(url, size, githubUrl, t)))]

\* add(url, data, githubUrl) cut off after writeBinary and before the write of
\* saveCacheIndex: of what add did, the blob is what is left
addInterruptedIn(st, url, size, githubUrl, t) ==
    [st EXCEPT !.blobs = writeBinary(st.blobs, localPath(url), size)]

\* the process ends inside add; the next process constructs its CacheManager
addInterrupted(url, size, githubUrl) ==
    /\ cacheMetadata.totalSize + size <= MaxTotalMB * MB
    /\ LET st == addInterruptedIn(Current, url, size, githubUrl, now)
       IN Become(Constructed(st.blobs, st.persisted, now))
    /\ last' = Call("addInterrupted", url, Arg(size, githubUrl), Ret("void", 0), NoPass)
    /\ UNCHANGED <<settings, now, others>>

(***************************************************************************)
(* SpecRestart: the cache over restarts of the plugin.  A process may end  *)
(* inside add, index.json may be found damaged at start, and a             *)
(* CacheManager is used only after its initialize() has run.  The          *)
(* adapter's calls succeed.                                                *)
(***************************************************************************)
RestartSettingsSet == {Settings(TRUE, 1, 1, "lru"), Settings(TRUE, 0, 1, "smart")}

InitRestart == Init /\ settings \in RestartSettingsSet

\* the CacheManager at hand has been initialized
Initialized == last.op # "addInterrupted"

NextRestart ==
    \/ \E damaged \in BOOLEAN : initialize(damaged, TRUE, {})
    \/ Initialized /\ Tick
    \/ Initialized /\ \E url \in Keys : get(url, TRUE)
    \/ Initialized /\ \E url \in Keys, size \in PayloadSizes :
          \E githubUrl \in {url, Undefined} : add(url, size, githubUrl, TRUE, TRUE, {})
    \/ Initialized /\ \E url \in Keys : remove(url, TRUE, TRUE)
    \/ Initialized /\ \E url \in Keys, size \in PayloadSizes :
          addInterrupted(url, size, Undefined)

SpecRestart == InitRestart /\ [][NextRestart]_vars

(***************************************************************************)
(* SpecCrash: the cache over restarts of the plugin when a process may end *)
(* inside remove.  point tells where: "lookup" (at await adapter.remove,   *)
(* line 121, the file still there) or "deleted" (the file deleted, before  *)
(* the write of saveCacheIndex, line 131).  The adapter's calls succeed.   *)
(***************************************************************************)
Points == {"lookup", "deleted"}

\* remove(url) cut off at point: of what remove did, the deletion of the blob
\* is what is left
removeInterruptedIn(st, url, point) ==
    IF MapHas(st.index, url) /\ point = "deleted"
    THEN [st EXCEPT !.blobs = adapterRemove(st.blobs, MapGet(st.index, url).localPath)]
    ELSE st

\* the process ends inside remove; the next process constructs its CacheManager
removeInterrupted(url, point) ==
    /\ MapHas(cacheIndex, url)
    /\ LET st == removeInterruptedIn(Current, url, point)
       IN Become(Constructed(st.blobs, st.persisted, now))
    /\ last' = Call("removeInterrupted", url, NoArg, Ret("void", 0), NoPass)
    /\ UNCHANGED <<settings, now, others>>

InitCrash == Init /\ settings = Settings(TRUE, 0, 1, "smart")

\* the CacheManager at hand has been initialized
InitializedAfterCrash == last.op # "removeInterrupted"

NextCrash ==
    \/ initialize(FALSE, TRUE, {})
    \/ InitializedAfterCrash /\ \E url \in Keys : get(url, TRUE)
    \/ InitializedAfterCrash /\ \E url \in Keys, size \in PayloadSizes :
          add(url, size, Undefined, TRUE, TRUE, {})
    \/ InitializedAfterCrash /\ \E url \in Keys : remove(url, TRUE, TRUE)
    \/ InitializedAfterCrash /\ \E url \in Keys, point \in Points :
          removeInterrupted(url, point)

SpecCrash == InitCrash /\ [][NextCrash]_vars

(***************************************************************************)
(* SpecNames: the cache under a caller whose images are at the URLs u1 and *)
(* u3 (https://a/Aa.png and https://a/BB.png), with no ceiling.  The       *)
(* adapter's calls succeed.                                                *)
(***************************************************************************)
NameKeys == {"u1", "u3"}

InitNames == Init /\ settings = Settings(TRUE, 0, 1, "smart")

NextNames ==
    \/ Tick
    \/ \E url \in NameKeys : get(url, TRUE)
    \/ \E url \in NameKeys, size \in PayloadSizes :
          add(url, size, Undefined, TRUE, TRUE, {})
    \/ \E url \in NameKeys : remove(url, TRUE, TRUE)
    \/ clearAll(TRUE, {})

SpecNames == InitNames /\ [][NextNames]_vars

(***************************************************************************)
(* ImageDownloader (githubUploader.ts).  An async call in flight is a      *)
(* record of tasks under an id.  A call of _processExternalImage is        *)
(*   [kind |-> "op", url, pc, result, awaiting]                            *)
(* with pc "hit" (the cache had the image, the result is known) or         *)
(* "download" (requestUrl is under way), and awaiting the callers of       *)
(* processExternalImage that await its promise, the one that created it    *)
(* first: 0 for a caller outside a batch, i for the i-th URL of the batch. *)
(* A call of processMultiple is [kind |-> "batch", urls, started].         *)
(* What runs between two awaits of network calls runs as one step: the     *)
(* cache's own awaits are awaits of the local storage adapter.             *)
(***************************************************************************)
Range(seq) == {seq[i] : i \in 1..Len(seq)}

\* const concurrency = 3
concurrency == 3
\* at most MaxCallers callers outside a batch await a promise at a time
MaxCallers == 2

\* the smallest id that no task has
FreeId(ts) == CHOOSE i \in 1..(Cardinality(DOMAIN ts) + 1) : i \notin DOMAIN ts

\* Map.set / Map.delete on a function
Put(f, k, v) == [x \in (DOMAIN f) \cup {k} |-> IF x = k THEN v ELSE f[x]]

Drop(f, k) == [x \in (DOMAIN f) \ {k} |-> f[x]]

\* the strings processExternalImage returns
Result(kind, value) == [kind |-> kind, value |-> value]

\* the in-flight state the downloader works on: the cache's store, the tasks
\* and the downloadQueue
Downloads(st, ts, queue) == [st |-> st, tasks |-> ts, queue |-> queue]

\* _processExternalImage(url) up to its first await of the network: the cache
\* lookup
startProcess(st, url, t, sett) ==
    LET g == IF sett.enableCache
             THEN getIn(st, url, t, TRUE)
             ELSE [st |-> st, ret |-> Ret("undefined", 0)]
    IN IF g.ret.kind = "entry"
       THEN [st |-> g.st, pc |-> "hit",
             result |-> IF g.ret.value.githubUrl # Undefined
                        THEN Result("githubUrl", g.ret.value.githubUrl)
                        ELSE Result("localPath", g.ret.value.localPath)]
       ELSE [st |-> g.st, pc |-> "download", result |-> Result("none", 0)]

\* (mutant: downloadQueue is not looked at, every call starts its own operation)
processExternalImageIn_NoQueue(d, url, caller, t, sett) ==
    LET id == FreeId(d.tasks)
        p == startProcess(d.st, url, t, sett)
    IN Downloads(p.st,
                 Put(d.tasks, id, [kind |-> "op", url |-> url, pc |-> p.pc,
                                   result |-> p.result, awaiting |-> <<caller>>]),
                 Put(d.queue, url, id))

\* processExternalImage(url) up to its await
processExternalImageIn(d, url, caller, t, sett) ==
    IF url \in DOMAIN d.queue
    THEN [d EXCEPT !.tasks[d.queue[url]].awaiting = Append(@, caller)]
    ELSE LET id == FreeId(d.tasks)
             p == startProcess(d.st, url, t, sett)
         IN Downloads(p.st,
                      Put(d.tasks, id, [kind |-> "op", url |-> url, pc |-> p.pc,
                                        result |-> p.result, awaiting |-> <<caller>>]),
                      Put(d.queue, url, id))

\* (mutant: the image is added to the cache only after its upload succeeded)
finishProcess_UploadFirst(st, url, size, upload, t, sett) ==
    IF size = 0 \/ upload = "fails"
    THEN [st |-> st, result |-> Result("url", url), pass |-> NoPass]
    ELSE LET a == IF sett.enableCache
                  THEN addIn(st, url, size, Undefined, t, sett, TRUE, TRUE, {})
                  ELSE [st |-> st, ret |-> Ret("undefined", 0), pass |-> NoPass]
         IN [st |-> a.st,
             result |-> IF upload = "ok" THEN Result("githubUrl", "gh")
                        ELSE IF a.ret.kind = "entry"
                             THEN Result("localPath", a.ret.value.localPath)
                             ELSE Result("url", url),
             pass |-> a.pass]

\* _processExternalImage(url) from the end of the download on.  size: the
\* byteLength downloaded, 0 when the download failed; upload: "none" (no
\* auto-upload or GitHub not configured), "ok" or "fails".
finishProcess(st, url, size, upload, t, sett) ==
    IF size = 0
    THEN [st |-> st, result |-> Result("url", url), pass |-> NoPass]
    ELSE LET a == IF sett.enableCache
                  THEN addIn(st, url, size, Undefined, t, sett, TRUE, TRUE, {})
                  ELSE [st |-> st, ret |-> Ret("undefined", 0), pass |-> NoPass]
             cached == a.ret.kind = "entry"
             \* cached.githubUrl = githubUrl: the object add returned, which is
             \* the entry of the index unless the pass of add removed it
             st1 == IF upload = "ok" /\ cached /\ MapHas(a.st.index, url)
                    THEN [a.st EXCEPT !.index =
                             MapSet(@, url, [MapGet(@, url) EXCEPT !.githubUrl = "gh"])]
                    ELSE a.st
         IN [st |-> st1,
             result |-> IF upload = "ok" THEN Result("githubUrl", "gh")
                        ELSE IF cached THEN Result("localPath", a.ret.value.localPath)
                        ELSE Result("url", url),
             pass |-> a.pass]

\* (mutant: the finally block does not delete the url from downloadQueue)
settleIn_KeepsQueue(d, id) ==
    Downloads(d.st, Drop(d.tasks, id), d.queue)

\* the promise of task id settles: every caller that awaits it returns, and
\* the caller that created it deletes the url from downloadQueue
settleIn(d, id) ==
    Downloads(d.st, Drop(d.tasks, id), Drop(d.queue, d.tasks[id].url))

DownloadArg(size, upload) == [size |-> size, githubUrl |-> Undefined, upload |-> upload]

Here == Downloads(Current, tasks, downloadQueue)

BecomeDownloads(d) ==
    /\ Become(d.st)
    /\ tasks' = d.tasks
    /\ downloadQueue' = d.queue

Ops == {id \in DOMAIN tasks : tasks[id].kind = "op"}

Batches == {id \in DOMAIN tasks : tasks[id].kind = "batch"}

\* the callers outside a batch that await a promise
Callers ==
    {<<id, i>> \in Ops \X (1..MaxCallers + concurrency) :
        i <= Len(tasks[id].awaiting) /\ tasks[id].awaiting[i] = 0}

\* the URLs of the running batch whose processExternalImage has not returned
Pending == UNION {Range(tasks[id].awaiting) : id \in Ops} \ {0}

\* the renderer calls processExternalImage(url) for an image
processExternalImage(url) ==
    /\ Cardinality(Callers) < MaxCallers
    /\ MapHas(cacheIndex, url) => MapGet(cacheIndex, url).accessCount < MaxAccess
    /\ BecomeDownloads(processExternalImageIn(Here, url, 0, now, settings))
    /\ last' = Call("processExternalImage", url, NoArg, Ret("pending", 0), NoPass)
    /\ UNCHANGED <<settings, now, evaluated>>

\* a promise whose image was in the cache settles
settleHit(id) ==
    /\ id \in Ops
    /\ tasks[id].pc = "hit"
    /\ BecomeDownloads(settleIn(Here, id))
    /\ last' = Call("_processExternalImage", tasks[id].url, DownloadArg(0, "none"),
                    Ret("string", [result |-> tasks[id].result,
                                   awaiting |-> tasks[id].awaiting]), NoPass)
    /\ UNCHANGED <<settings, now, evaluated>>

\* the download of a promise ends; the rest of _processExternalImage runs and
\* the promise settles
settleDownload(id, size, upload) ==
    /\ id \in Ops
    /\ tasks[id].pc = "download"
    /\ cacheMetadata.totalSize + size <= MaxTotalMB * MB
    /\ LET f == finishProcess(Current, tasks[id].url, size, upload, now, settings)
       IN /\ BecomeDownloads(settleIn(Downloads(f.st, tasks, downloadQueue), id))
          /\ last' = Call("_processExternalImage", tasks[id].url,
                          DownloadArg(size, upload),
                          Ret("string", [result |-> f.result,
                                         awaiting |-> tasks[id].awaiting]), f.pass)
    /\ UNCHANGED <<settings, now, evaluated>>

\* (mutant: one chunk holds the whole array)
chunkArray_Whole(array, size) == <<array>>

\* chunkArray(array, size)
chunkArray(array, size) ==
    [c \in 1..((Len(array) + size - 1) \div size) |->
        SubSeq(array, (c - 1) * size + 1,
               IF c * size < Len(array) THEN c * size ELSE Len(array))]

\* chunk.map(async (url) => ...): processExternalImage is called for the URLs
\* of the chunk, one after the other; from is the place of the chunk's first
\* URL in urls
RECURSIVE startChunk(_, _, _, _, _)
startChunk(d, chunk, from, t, sett) ==
    IF chunk = <<>>
    THEN d
    ELSE startChunk(processExternalImageIn(d, Head(chunk), from, t, sett),
                    Tail(chunk), from + 1, t, sett)

\* the number of URLs in the first n chunks
RECURSIVE LenOfChunks(_, _)
LenOfChunks(chunks, n) ==
    IF n = 0 THEN 0 ELSE LenOfChunks(chunks, n - 1) + Len(chunks[n])

\* the arrays of image URLs the renderer finds in a note
BatchUrls == {<<"u1", "u1", "u1", "u2">>, <<"u1", "u2", "u2", "u1">>}

Occurrences(urls, url) == Cardinality(PlacesOf(urls, url))

\* processMultiple(urls) up to its first await: the first chunk is started
processMultiple(urls) ==
    /\ Batches = {}
    /\ \A url \in Range(urls) :
          MapHas(cacheIndex, url) =>
              MapGet(cacheIndex, url).accessCount + Occurrences(urls, url) <= MaxAccess
    /\ LET id == FreeId(tasks)
           chunks == chunkArray(urls, concurrency)
           d == Downloads(Current,
                          Put(tasks, id, [kind |-> "batch", urls |-> urls, chunk |-> 1]),
                          downloadQueue)
       IN BecomeDownloads(startChunk(d, chunks[1], 1, now, settings))
    /\ last' = Call("processMultiple", "", NoArg, Ret("pending", 0), NoPass)
    /\ UNCHANGED <<settings, now, evaluated>>

\* await Promise.all(promises) returns: the next chunk is started, or
\* processMultiple returns
nextChunk(id) ==
    /\ id \in Batches
    /\ Pending = {}
    /\ LET chunks == chunkArray(tasks[id].urls, concurrency)
           c == tasks[id].chunk + 1
       IN IF c <= Len(chunks)
          THEN /\ BecomeDownloads(
                      startChunk(Downloads(Current,
                                           [tasks EXCEPT ![id].chunk = c],
                                           downloadQueue),
                                 chunks[c], LenOfChunks(chunks, c - 1) + 1, now, settings))
               /\ last' = Call("processMultiple", "", NoArg, Ret("pending", 0), NoPass)
          ELSE /\ BecomeDownloads(Downloads(Current, Drop(tasks, id), downloadQueue))
               /\ last' = Call("processMultiple", "", NoArg, Ret("results", 0), NoPass)
    /\ UNCHANGED <<settings, now, evaluated>>

(***************************************************************************)
(* SpecDownload: the cache under the downloader: images are processed one  *)
(* by one and in batches, and removed from the cache.  The storage         *)
(* adapter's calls succeed; downloads and uploads may fail.                *)
(***************************************************************************)
DownloadSettingsSet ==
    {Settings(TRUE, 0, 1, "smart"), Settings(TRUE, 1, 0, "smart"),
     Settings(FALSE, 1, 1, "smart")}

Uploads == {"none", "ok", "fails"}

\* the byteLength of a download: 0 when it failed
DownloadSizes == {0, MB}

InitDownload == Init /\ settings \in DownloadSettingsSet

NextDownload ==
    \/ \E url \in Keys : processExternalImage(url)
    \/ \E id \in DOMAIN tasks : settleHit(id)
    \/ \E id \in DOMAIN tasks, size \in DownloadSizes, upload \in Uploads :
          settleDownload(id, size, upload)
    \/ \E urls \in BatchUrls : processMultiple(urls)
    \/ \E id \in DOMAIN tasks : nextChunk(id)
    \/ \E url \in Keys : tasks = NoTasks /\ remove(url, TRUE, TRUE)

SpecDownload == InitDownload /\ [][NextDownload]_vars

\* getStats(): the aggregates as stored, and their quotient (lines 292-310)
getStats(index, meta) ==
    [totalSize   |-> meta.totalSize,
     imageCount  |-> meta.imageCount,
     averageSize |-> IF meta.imageCount > 0
                     THEN meta.totalSize \div meta.imageCount
                     ELSE 0]

(***************************************************************************)
(* ImagePlugin.syncCachedImagesToGitHub (main.ts).  A run in flight is a   *)
(* record of tasks                                                         *)
(*   [kind |-> "sync", images, at, successCount, failCount]                *)
(* images: cacheOnlyImages, the entries filtered out of getAllCached() when *)
(* the run started; at: the place of the entry whose upload is awaited.    *)
(***************************************************************************)
\* at most MaxRuns runs of the command are in flight at a time
MaxRuns == 2

\* String.prototype.startsWith
startsWith(str, prefix) ==
    /\ Len(str) >= Len(prefix)
    /\ SubSeq(str, 1, Len(prefix)) = prefix

\* "cache://"
cacheScheme == <<99, 97, 99, 104, 101, 58, 47, 47>>

\* cacheIndex.filter((img) => !img.githubUrl && img.url.startsWith("cache://"))
cacheOnlyImages(index) ==
    SelectSeq(index, LAMBDA img : /\ img.githubUrl = Undefined
                                  /\ startsWith(UrlText(img.url), cacheScheme))

Syncs == {id \in DOMAIN tasks : tasks[id].kind = "sync"}

\* syncCachedImagesToGitHub() up to the first await of its loop
syncStartIn(ts, index, meta, configured) ==
    LET images == cacheOnlyImages(index)
    IN IF ~configured
       THEN [tasks |-> ts, ret |-> Ret("not configured", 0)]
       ELSE IF getStats(index, meta).imageCount = 0
       THEN [tasks |-> ts, ret |-> Ret("no cached images", 0)]
       ELSE IF images = <<>>
       THEN [tasks |-> ts, ret |-> Ret("all on GitHub", 0)]
       ELSE [tasks |-> Put(ts, FreeId(ts),
                           [kind |-> "sync", images |-> images, at |-> 1,
                            successCount |-> 0, failCount |-> 0]),
             ret |-> Ret("pending", Len(images))]

\* the user runs the command "Sync cached images to GitHub"
syncCachedImagesToGitHub(configured) ==
    /\ Cardinality(Syncs) < MaxRuns
    /\ LET r == syncStartIn(tasks, cacheIndex, cacheMetadata, configured)
       IN /\ tasks' = r.tasks
          /\ last' = Call("syncCachedImagesToGitHub", "", NoArg, r.ret, NoPass)
    /\ UNCHANGED <<cacheIndex, cacheMetadata, blobs, persisted, settings, now,
                   downloadQueue, evaluated>>

\* the end of one round of the loop: the count, and the next entry or the
\* summary and the return
syncNext(ts, id, ok) ==
    LET run == ts[id]
    IN IF run.at < Len(run.images)
       THEN [ts EXCEPT ![id].at = @ + 1,
                       ![id].successCount = IF ok THEN @ + 1 ELSE @,
                       ![id].failCount = IF ok THEN @ ELSE @ + 1]
       ELSE Drop(ts, id)

\* one round of the loop of run id, for cachedImg = images[at]: readBinary
\* rejects when the file is not there; upload: uploadImage resolves ("ok") or
\* rejects ("fails"); a rejection is caught and counted
syncUpload(id, upload) ==
    /\ id \in Syncs
    /\ LET cachedImg == tasks[id].images[tasks[id].at]
           read == cachedImg.localPath \in DOMAIN blobs
           r == IF read /\ upload = "ok"
                THEN updateGitHubUrlIn(Current, cachedImg.url, "gh", TRUE)
                ELSE [st |-> Current, ok |-> FALSE]
       IN /\ Become(r.st)
          /\ tasks' = syncNext(tasks, id, read /\ upload = "ok")
          /\ last' = Call("uploadImage", cachedImg.url, NoArg,
                          Ret(IF ~read THEN "not read"
                              ELSE IF upload = "ok" THEN "uploaded" ELSE "upload failed",
                              [run |-> id, attached |-> r.ok]),
                          NoPass)
    /\ UNCHANGED <<settings, now, downloadQueue, evaluated>>

(***************************************************************************)
(* SpecSync: pasted images (keys cache://c.png and cache://d.png) and a    *)
(* downloaded one in a cache with no ceiling, synced to GitHub by the      *)
(* command, which the user may run again while a run is in flight.  The    *)
(* adapter's writes and removals succeed; uploads may fail.                *)
(***************************************************************************)
SyncKeys == {"c1", "c2", "u1"}

InitSync == Init /\ settings = Settings(TRUE, 0, 1, "smart")

NextSync ==
    \/ \E url \in SyncKeys : add(url, MB \div 2, Undefined, TRUE, TRUE, {})
    \/ \E url \in SyncKeys : remove(url, TRUE, TRUE)
    \/ \E configured \in BOOLEAN : syncCachedImagesToGitHub(configured)
    \/ \E id \in DOMAIN tasks, upload \in {"ok", "fails"} : syncUpload(id, upload)

SpecSync == InitSync /\ [][NextSync]_vars

(***************************************************************************)
(* SpecFunctions: the pure functions of CacheManager on inputs drawn from  *)
(* bounded sets.  evaluated holds the input, and after the call the        *)
(* function's name and value.  add is called for the key that is not a URL.*)
(***************************************************************************)
\* the longest last path segment (with its query) of a generated URL
MaxPath == 3
\* the largest whole number of days between a timestamp and the present
MaxDays == 2
\* the largest accessCount of a scored entry
MaxCount == 3

\* ".", "a", "?"
PathChars == {46, 97, 63}

StringsUpTo(n, chars) == UNION {[1..k -> chars] : k \in 0..n}

\* "https://a"
Origin == <<104, 116, 116, 112, 115, 58, 47, 47, 97>>

\* the part of str before its first "?"
BeforeQuery(str) ==
    IF PlacesOf(str, 63) = {} THEN str ELSE SubSeq(str, 1, Min(PlacesOf(str, 63)) - 1)

\* the strings generateFilename is called with: the URLs of the keys, and
\* "https://a/" or "/" followed by one segment and its query.  The segments
\* "." and ".." are left out: the URL parser takes them out of the path.
Texts ==
    {UrlText(url) : url \in {"u1", "u2", "u3", "u4"}}
    \cup {origin \o <<47>> \o rest :
            origin \in {Origin, <<>>},
            rest \in {r \in StringsUpTo(MaxPath, PathChars) :
                         BeforeQuery(r) \notin {<<46>>, <<46, 46>>}}}

\* the present of a scored entry
Present == MaxDays * DayMs

\* the entries calculateSmartScore is called with
Scored ==
    {[NewEntry("u1", size, Undefined, created * DayMs)
         EXCEPT !.lastAccessedAt = accessed * DayMs, !.accessCount = count] :
        size \in PayloadSizes, created \in 0..MaxDays, accessed \in 0..MaxDays,
        count \in 1..MaxCount}

\* two entries that differ at most in accessCount and lastAccessedAt
ScoredPairs ==
    {p \in [a : Scored, b : Scored] :
        /\ p.a.createdAt <= p.a.lastAccessedAt
        /\ p.b.createdAt <= p.b.lastAccessedAt
        /\ p.a.size = p.b.size
        /\ p.a.createdAt = p.b.createdAt}

Input(fn, arg) == [fn |-> "none", for |-> fn, arg |-> arg]

InitFunctions ==
    /\ InitObjects
    /\ settings = Settings(TRUE, 0, 1, "smart")
    /\ \/ \E str \in Texts : evaluated = Input("generateFilename", str)
       \/ \E p \in ScoredPairs : evaluated = Input("calculateSmartScore", p)

\* generateFilename(url) is called
callGenerateFilename ==
    /\ evaluated.fn = "none"
    /\ evaluated.for = "generateFilename"
    /\ evaluated' = [fn |-> "generateFilename", arg |-> evaluated.arg,
                     value |-> generateFilename(evaluated.arg)]
    /\ UNCHANGED <<cacheIndex, cacheMetadata, settings, blobs, persisted, now, last,
                   tasks, downloadQueue>>

\* calculateSmartScore is called for the two entries at the same time
callCalculateSmartScore ==
    /\ evaluated.fn = "none"
    /\ evaluated.for = "calculateSmartScore"
    /\ evaluated' = [fn |-> "calculateSmartScore", arg |-> evaluated.arg,
                     value |-> [a |-> calculateSmartScore(evaluated.arg.a, Present),
                                b |-> calculateSmartScore(evaluated.arg.b, Present)]]
    /\ UNCHANGED <<cacheIndex, cacheMetadata, settings, blobs, persisted, now, last,
                   tasks, downloadQueue>>

NextFunctions ==
    \/ callGenerateFilename
    \/ callCalculateSmartScore
    \/ \E url \in {"u2", "u4"} : add(url, MB, Undefined, TRUE, TRUE, {})

SpecFunctions == InitFunctions /\ [][NextFunctions]_vars

(***************************************************************************)
(* add, step by step.  A call of add is a task                             *)
(*   [kind |-> "add", url, size, pc, cached, order, sorted, bytesToFree,   *)
(*    freedBytes, removing, evicted]                                       *)
(* whose pc names the await it is suspended at: "write" (writeBinary,      *)
(* line 82), "hash" (hashUrl, line 93), "save" (saveCacheIndex, line 102), *)
(* "remove" (adapter.remove of the pass's next candidate, line 121) and    *)
(* "done" once add has returned.  cached is the entry add builds, order    *)
(* tells the how-manieth cacheIndex.set of the run the task's was, sorted  *)
(* the candidates of its pass not yet tried, removing the entry remove     *)
(* read from the index, evicted the keys its pass removed.  A write to the *)
(* adapter takes effect where it is issued, except the blob's, which is    *)
(* there when writeBinary returns; the awaits of saveCacheIndex inside a   *)
(* pass are not suspension points of the model.                            *)
(***************************************************************************)
\* at most MaxAdds calls of add in one run of the step-by-step model
MaxAdds == 2

Nothing == [url |-> ""]

AddTask(url, size) ==
    [kind |-> "add", url |-> url, size |-> size, pc |-> "write", cached |-> Nothing,
     order |-> 0, sorted |-> <<>>, bytesToFree |-> 0, freedBytes |-> 0,
     removing |-> Nothing, evicted |-> <<>>]

\* add returns: the locals of the call are gone
Returned(task) ==
    [task EXCEPT !.pc = "done", !.sorted = <<>>, !.bytesToFree = 0, !.freedBytes = 0,
                 !.removing = Nothing]

\* this.cacheIndex.set(url, cached)
setRow(index, url, cached) ==
    MapSet(index, url, cached)

\* the loop of cleanup up to its next await of adapter.remove, or to the
\* return of cleanup and of add
RECURSIVE loopOn(_, _, _)
loopOn(st, task, t) ==
    IF task.sorted = <<>> \/ task.freedBytes >= task.bytesToFree
    THEN [st |-> saveCacheIndex([st EXCEPT !.meta.lastCleanup = t], TRUE),
          task |-> Returned(task)]
    ELSE IF ~MapHas(st.index, Head(task.sorted).url)
    THEN loopOn(st, [task EXCEPT !.sorted = Tail(@)], t)
    ELSE [st |-> st,
          task |-> [task EXCEPT !.pc = "remove",
                                !.removing = MapGet(st.index, Head(task.sorted).url)]]

\* checkAndCleanup() at the end of add, up to the first await of
\* adapter.remove
startPass(st, task, t, sett) ==
    LET candidates == getCleanupCandidates(st.index, t, sett)
    IN IF ~needsCleanup(st, sett) \/ candidates = <<>>
       THEN [st |-> st, task |-> Returned(task)]
       ELSE loopOn(st,
                   [task EXCEPT !.sorted = sortByStrategy(candidates, sett.cacheStrategy, t),
                                !.bytesToFree = st.meta.totalSize - maxSizeBytes(sett)],
                   t)

\* (mutant: remove leaves an entry that is within the protection period now)
finishRemove_Rechecks(st, task, t, sett) ==
    LET url == Head(task.sorted).url
    IN IF MapHas(st.index, url) /\ t - MapGet(st.index, url).lastAccessedAt < protectionMs(sett)
       THEN loopOn(st, [task EXCEPT !.sorted = Tail(@), !.removing = Nothing], t)
       ELSE LET meta1 == [st.meta EXCEPT !.totalSize = @ - task.removing.size,
                                         !.imageCount = @ - 1]
                st1 == Store(MapDelete(st.index, url), meta1,
                             adapterRemove(st.blobs, task.removing.localPath), st.persisted)
            IN loopOn(saveCacheIndex(st1, TRUE),
                      [task EXCEPT !.sorted = Tail(@), !.removing = Nothing,
                                   !.freedBytes = @ + Head(task.sorted).size,
                                   !.evicted = Append(@, url)],
                      t)

\* remove(cached.url) from the return of adapter.remove on, and the loop of
\* cleanup up to its next await
finishRemove(st, task, t, sett) ==
    LET url == Head(task.sorted).url
        meta1 == [st.meta EXCEPT !.totalSize = @ - task.removing.size,
                                 !.imageCount = @ - 1]
        st1 == Store(MapDelete(st.index, url), meta1,
                     adapterRemove(st.blobs, task.removing.localPath), st.persisted)
    IN loopOn(saveCacheIndex(st1, TRUE),
              [task EXCEPT !.sorted = Tail(@), !.removing = Nothing,
                           !.freedBytes = @ + Head(task.sorted).size,
                           !.evicted = Append(@, url)],
              t)

Adds == {id \in DOMAIN tasks : tasks[id].kind = "add"}

\* add(url, data) is called: generateFilename, writeBinary is issued
addCalled(url, size) ==
    /\ Cardinality(Adds) < MaxAdds
    /\ ~filename[url].threw
    /\ tasks' = Put(tasks, FreeId(tasks), AddTask(url, size))
    /\ last' = Call("add", url, Arg(size, Undefined), Ret("pending", 0), NoPass)
    /\ UNCHANGED <<cacheIndex, cacheMetadata, settings, blobs, persisted, now,
                   downloadQueue, evaluated>>

\* writeBinary returns: the entry's fields are evaluated, hashUrl is awaited
addWritten(id) ==
    /\ id \in Adds
    /\ tasks[id].pc = "write"
    /\ blobs' = writeBinary(blobs, localPath(tasks[id].url), tasks[id].size)
    /\ tasks' = [tasks EXCEPT ![id].pc = "hash",
                              ![id].cached = NewEntry(tasks[id].url, tasks[id].size,
                                                      Undefined, now)]
    /\ last' = Call("add", tasks[id].url, Arg(tasks[id].size, Undefined),
                    Ret("written", 0), NoPass)
    /\ UNCHANGED <<cacheIndex, cacheMetadata, settings, persisted, now,
                   downloadQueue, evaluated>>

\* hashUrl returns: the entry is put into the index, saveCacheIndex is awaited
addHashed(id) ==
    /\ id \in Adds
    /\ tasks[id].pc = "hash"
    /\ LET cached == tasks[id].cached
           meta1 == [cacheMetadata EXCEPT !.totalSize = @ + cached.size,
                                          !.imageCount = @ + 1]
           st1 == Store(setRow(cacheIndex, cached.url, cached), meta1, blobs, persisted)
       IN /\ Become(saveCacheIndex(st1, TRUE))
          /\ tasks' = [tasks EXCEPT ![id].pc = "save",
                                    ![id].order = 1 + Cardinality({a \in Adds : tasks[a].order > 0})]
          /\ last' = Call("add", cached.url, Arg(cached.size, Undefined),
                          Ret("set", cached), NoPass)
    /\ UNCHANGED <<settings, now, downloadQueue, evaluated>>

\* saveCacheIndex returns: checkAndCleanup
addSaved(id) ==
    /\ id \in Adds
    /\ tasks[id].pc = "save"
    /\ LET r == startPass(Current, tasks[id], now, settings)
       IN /\ Become(r.st)
          /\ tasks' = [tasks EXCEPT ![id] = r.task]
          /\ last' = Call("add", tasks[id].url, Arg(tasks[id].size, Undefined),
                          Ret(IF r.task.pc = "done" THEN "entry" ELSE "cleanup",
                              tasks[id].cached), NoPass)
    /\ UNCHANGED <<settings, now, downloadQueue, evaluated>>

\* adapter.remove returns inside the pass of an add: what the step returns is
\* the row the key had in the index
passRemoved(id) ==
    /\ id \in Adds
    /\ tasks[id].pc = "remove"
    /\ LET url == Head(tasks[id].sorted).url
           r == finishRemove(Current, tasks[id], now, settings)
       IN /\ Become(r.st)
          /\ tasks' = [tasks EXCEPT ![id] = r.task]
          /\ last' = Call("remove", url, NoArg,
                          IF MapHas(cacheIndex, url)
                          THEN Ret("entry", MapGet(cacheIndex, url))
                          ELSE Ret("undefined", 0),
                          NoPass)
    /\ UNCHANGED <<settings, now, downloadQueue, evaluated>>

(***************************************************************************)
(* SpecRace: calls of add that overlap each other and calls of get, under  *)
(* a ceiling of 1 MB.  The storage adapter's calls succeed.                *)
(***************************************************************************)
RaceSettingsSet == {Settings(TRUE, 1, 1, "fifo"), Settings(TRUE, 1, 0, "fifo")}

InitRace == Init /\ settings \in RaceSettingsSet

NextRace ==
    \/ \E url \in Keys, size \in PayloadSizes : addCalled(url, size)
    \/ \E id \in DOMAIN tasks : addWritten(id)
    \/ \E id \in DOMAIN tasks : addHashed(id)
    \/ \E id \in DOMAIN tasks : addSaved(id)
    \/ \E id \in DOMAIN tasks : passRemoved(id)
    \/ \E url \in Keys : get(url, TRUE)
    \/ Tick

SpecRace == InitRace /\ [][NextRace]_vars

(***************************************************************************)
(* What the claims are stated with.                                        *)
(***************************************************************************)
RECURSIVE SumOfSizes(_)
SumOfSizes(entries) ==
    IF entries = <<>> THEN 0 ELSE Head(entries).size + SumOfSizes(Tail(entries))

\* the entries of index whose key is in urls, in the index's order
EntriesOf(index, urls) == SelectSeq(index, LAMBDA c : c.url \in urls)


\* a call of add that wrote its blob and ran to its end
AddCompleted(call) == call.op = "add" /\ call.ret.kind = "entry"

(***************************************************************************)
(* C1  Aggregate consistency: after every operation, metadata.totalSize is *)
(* the sum of the sizes of the entries of the index and                    *)
(* metadata.imageCount is the number of entries.                           *)
(* The code breaks it: add on a key that is in the index replaces the      *)
(* entry and still adds the new size to totalSize and 1 to imageCount.     *)
(***************************************************************************)
C1_AggregateConsistency ==
    /\ cacheMetadata.totalSize = SumOfSizes(cacheIndex)
    /\ cacheMetadata.imageCount = Len(cacheIndex)

(***************************************************************************)
(* C2  Idempotent re-add: add on a key that is in the index, with a        *)
(* payload of another length, leaves one entry for the key, whose size is  *)
(* the new payload's length, and the aggregates count the key once:        *)
(* totalSize loses the old size and gains the new one, imageCount stays.   *)
(* (Stated for an add whose own cleanup pass did not run, so that nothing  *)
(* but the add changes the aggregates.)                                    *)
(* The code breaks the part about the aggregates.                          *)
(***************************************************************************)
C2_ReAddStep ==
    (/\ AddCompleted(last')
     /\ ~last'.pass.ran
     /\ MapHas(cacheIndex, last'.url)
     /\ MapGet(cacheIndex, last'.url).size # last'.arg.size)
    => /\ Len(EntriesOf(cacheIndex', {last'.url})) = 1
       /\ MapGet(cacheIndex', last'.url).size = last'.arg.size
       /\ cacheMetadata'.totalSize =
              cacheMetadata.totalSize - MapGet(cacheIndex, last'.url).size + last'.arg.size
       /\ cacheMetadata'.imageCount = cacheMetadata.imageCount

C2_IdempotentReAdd == [][C2_ReAddStep]_vars

(***************************************************************************)
(* The eviction pass of the last call (of add or of checkAndCleanup), read *)
(* from last.pass; now and settings are the ones the pass ran with, since  *)
(* the call changes neither.                                               *)
(***************************************************************************)
PassRan == last.pass.ran

\* outside the protection window at the time of the pass
Eligible(cached) ==
    now - cached.lastAccessedAt >= settings.cacheProtectionDays * DayMs

PassEligible == {c \in Range(last.pass.before) : Eligible(c)}

PassProtected == {c \in Range(last.pass.before) : ~Eligible(c)}

\* the entries the pass removed, in the order it removed them
PassEvicted ==
    [j \in 1..Len(last.pass.evicted) |-> MapGet(last.pass.before, last.pass.evicted[j])]

\* the key the active strategy orders by
OrderKey(cached) ==
    CASE settings.cacheStrategy = "lru" -> cached.lastAccessedAt
      [] settings.cacheStrategy = "lfu" -> cached.accessCount
      [] settings.cacheStrategy = "fifo" -> cached.createdAt
      [] settings.cacheStrategy = "smart" -> calculateSmartScore(cached, now)

\* c1 comes before c2 in the strategy's order: a smaller key, or the same key
\* and an earlier place in the index
Precedes(c1, c2) ==
    \/ OrderKey(c1) < OrderKey(c2)
    \/ /\ OrderKey(c1) = OrderKey(c2)
       /\ MapPos(last.pass.before, c1.url) < MapPos(last.pass.before, c2.url)

(***************************************************************************)
(* C3  Protection window: the candidates of a pass are exactly the entries *)
(* with now - lastAccessedAt >= cacheProtectionDays days; an entry inside  *)
(* the window is not removed by the pass and is still in the index after   *)
(* it, whatever the strategy and the number of bytes to free.              *)
(***************************************************************************)
C3_ProtectionWindow ==
    PassRan =>
        /\ last.pass.candidates = {c.url : c \in PassEligible}
        /\ \A c \in PassProtected :
              /\ c.url \notin Range(last.pass.evicted)
              /\ c \in Range(cacheIndex)

\* a pass that removed an entry, left a protected one, and freed less than asked
C3_Witness ==
    /\ PassRan
    /\ PassProtected # {}
    /\ last.pass.evicted # <<>>
    /\ last.pass.returned < last.pass.bytesToFree

(***************************************************************************)
(* C4  Strategy ordering: whenever a pass removes an entry, every eligible *)
(* entry with a strictly smaller key of the active strategy was removed    *)
(* earlier in the pass.                                                    *)
(* The code breaks it when a removal fails: the loop goes on to the next   *)
(* candidate and leaves the one with the smaller key in the index.         *)
(***************************************************************************)
C4_StrategyOrdering ==
    PassRan =>
        \A j \in 1..Len(PassEvicted) :
            \A c \in PassEligible :
                OrderKey(c) < OrderKey(PassEvicted[j])
                    => c.url \in Range(SubSeq(last.pass.evicted, 1, j - 1))

(***************************************************************************)
(* C5  Early stop: each entry a pass removes is removed while the bytes    *)
(* freed so far are below bytesToFree; and when no removal of the pass     *)
(* failed, the removed entries are a prefix of the candidates in the       *)
(* strategy's order (ascending key, entries of equal key in index order)   *)
(* that either reaches bytesToFree or is all of the candidates.            *)
(***************************************************************************)
C5_EarlyStop ==
    PassRan =>
        /\ \A j \in 1..Len(PassEvicted) :
              SumOfSizes(SubSeq(PassEvicted, 1, j - 1)) < last.pass.bytesToFree
        /\ last.pass.failed = <<>> =>
              /\ \A j \in 1..Len(PassEvicted) :
                    \A c \in PassEligible \ Range(SubSeq(PassEvicted, 1, j)) :
                        Precedes(PassEvicted[j], c)
              /\ \/ SumOfSizes(PassEvicted) >= last.pass.bytesToFree
                 \/ Range(PassEvicted) = PassEligible

\* a pass that stopped early: it reached the target and left a candidate
C5_Witness ==
    /\ PassRan
    /\ last.pass.failed = <<>>
    /\ last.pass.evicted # <<>>
    /\ SumOfSizes(PassEvicted) >= last.pass.bytesToFree
    /\ PassEligible \ Range(PassEvicted) # {}

(***************************************************************************)
(* C6  Under-freeing is not an error: a pass returns the sum of the sizes  *)
(* of the entries it removed, which is the decrease of totalSize over the  *)
(* pass; when that is less than bytesToFree, every candidate was tried,    *)
(* no protected entry was removed, and the call returned normally.         *)
(***************************************************************************)
C6_UnderFreeing ==
    PassRan =>
        /\ last.pass.returned = SumOfSizes(PassEvicted)
        /\ last.pass.returned = last.pass.totalBefore - cacheMetadata.totalSize
        /\ last.pass.returned < last.pass.bytesToFree =>
              /\ Range(last.pass.evicted) \cup Range(last.pass.failed)
                    = {c.url : c \in PassEligible}
              /\ \A c \in PassProtected : c \in Range(cacheIndex)
              /\ last.ret.kind # "throws"

\* a pass that ran out of candidates below the target, after removing some
C6_Witness ==
    /\ PassRan
    /\ last.pass.evicted # <<>>
    /\ last.pass.failed = <<>>
    /\ last.pass.returned < last.pass.bytesToFree

(***************************************************************************)
(* C7  Cleanup postcondition: when checkAndCleanup has completed with the  *)
(* cache enabled and a positive ceiling, totalSize <= ceiling or no entry  *)
(* outside the protection window is left in the index.                     *)
(* The code breaks it when a removal fails.                                *)
(***************************************************************************)
C7_CleanupPostcondition ==
    (/\ last.op = "checkAndCleanup" \/ AddCompleted(last)
     /\ settings.enableCache
     /\ settings.maxCacheSize > 0)
    => \/ cacheMetadata.totalSize <= settings.maxCacheSize * MB
       \/ \A c \in Range(cacheIndex) : ~Eligible(c)

(***************************************************************************)
(* C8  checkAndCleanup does nothing when the cache is disabled, when the   *)
(* ceiling is 0, or when totalSize is not above the ceiling: the index,    *)
(* the aggregates with lastCleanup, the blobs and the index document stay  *)
(* as they are; otherwise it calls cleanup with totalSize - ceiling.       *)
(***************************************************************************)
C8_CheckStep ==
    last'.op = "checkAndCleanup" =>
        IF \/ ~settings.enableCache
           \/ settings.maxCacheSize = 0
           \/ cacheMetadata.totalSize <= settings.maxCacheSize * MB
        THEN /\ ~last'.pass.ran
             /\ UNCHANGED <<cacheIndex, cacheMetadata, blobs, persisted>>
        ELSE /\ last'.pass.ran
             /\ last'.pass.bytesToFree =
                    cacheMetadata.totalSize - settings.maxCacheSize * MB

C8_CheckAndCleanupNoOp == [][C8_CheckStep]_vars

\* a call that did nothing although the index held more than the ceiling
\* allows: the cache is disabled
C8_Witness ==
    /\ last.op = "checkAndCleanup"
    /\ ~last.pass.ran
    /\ ~settings.enableCache
    /\ cacheMetadata.totalSize > settings.maxCacheSize * MB

(***************************************************************************)
(* C9  get(key): on a hit the entry's lastAccessedAt becomes now and its   *)
(* accessCount grows by 1, every other field of it, every other entry, the *)
(* aggregates and the blobs stay, the index document is written and the    *)
(* updated entry is returned; on a miss it returns undefined and changes   *)
(* nothing.                                                                *)
(***************************************************************************)
C9_GetStep ==
    last'.op = "get" =>
        IF MapHas(cacheIndex, last'.url)
        THEN LET old == MapGet(cacheIndex, last'.url)
                 new == [old EXCEPT !.lastAccessedAt = now,
                                    !.accessCount = old.accessCount + 1]
             IN /\ Len(cacheIndex') = Len(cacheIndex)
                /\ \A i \in 1..Len(cacheIndex) :
                      cacheIndex'[i] = IF cacheIndex[i].url = last'.url
                                       THEN new ELSE cacheIndex[i]
                /\ last'.ret = Ret("entry", new)
                /\ cacheMetadata' = cacheMetadata
                /\ blobs' = blobs
                /\ persisted' = IndexDocument(cacheMetadata', cacheIndex')
        ELSE /\ last'.ret.kind = "undefined"
             /\ UNCHANGED <<cacheIndex, cacheMetadata, blobs, persisted>>

C9_GetFrame == [][C9_GetStep]_vars

\* a hit on an entry that carries a GitHub URL, a day after it was added
C9_Witness ==
    /\ last.op = "get"
    /\ last.ret.kind = "entry"
    /\ last.ret.value.githubUrl # Undefined
    /\ last.ret.value.lastAccessedAt > last.ret.value.createdAt

(***************************************************************************)
(* C10  Cache-only then sync, call by call:                                *)
(*  - add without a GitHub URL returns an entry with githubUrl undefined,  *)
(*    size the payload's byte length and accessCount 1;                    *)
(*  - updateGitHubUrl on that key, called next, returns true and sets the  *)
(*    entry's githubUrl, leaving the rest of the entry as add built it;    *)
(*  - get on a key whose entry, not read since it was added, has just      *)
(*    been given a GitHub URL returns the entry with that URL and          *)
(*    accessCount 2.                                                       *)
(* C10_CacheOnlyThenSync_Original is the claim as it stands.  It fails:    *)
(* the cleanup pass that add itself runs can evict the entry add returns   *)
(* (a protection period of 0 days and a ceiling that is exceeded), and     *)
(* then updateGitHubUrl returns false and get returns undefined.           *)
(* C10_CacheOnlyThenSync states it for an entry that is in the index when  *)
(* add returns.                                                            *)
(***************************************************************************)
C10_AddStep ==
    (AddCompleted(last') /\ last'.arg.githubUrl = Undefined)
    => /\ last'.ret.value.githubUrl = Undefined
       /\ last'.ret.value.size = last'.arg.size
       /\ last'.ret.value.accessCount = 1

\* updateGitHubUrl(key, url) right after add(key, bytes) without a GitHub URL
C10_AttachCalled ==
    /\ AddCompleted(last)
    /\ last.arg.githubUrl = Undefined
    /\ last'.op = "updateGitHubUrl"
    /\ last'.url = last.url

C10_Attached ==
    /\ last'.ret = Ret("boolean", TRUE)
    /\ MapHas(cacheIndex', last'.url)
    /\ MapGet(cacheIndex', last'.url) =
           [last.ret.value EXCEPT !.githubUrl = last'.arg.githubUrl]

C10_GetStep ==
    (/\ last.op = "updateGitHubUrl"
     /\ last.ret = Ret("boolean", TRUE)
     /\ MapGet(cacheIndex, last.url).accessCount = 1
     /\ last'.op = "get"
     /\ last'.url = last.url)
    => /\ last'.ret.kind = "entry"
       /\ last'.ret.value.githubUrl = last.arg.githubUrl
       /\ last'.ret.value.accessCount = 2

C10_CacheOnlyThenSync_Original ==
    [][/\ C10_AddStep
       /\ C10_AttachCalled => C10_Attached
       /\ C10_GetStep]_vars

C10_CacheOnlyThenSync ==
    [][/\ C10_AddStep
       /\ (C10_AttachCalled /\ MapHas(cacheIndex, last.url)) => C10_Attached
       /\ C10_GetStep]_vars

\* the end of the scenario: get returns the entry with the URL that
\* updateGitHubUrl attached and accessCount 2
C10_Witness ==
    /\ last.op = "get"
    /\ last.ret.kind = "entry"
    /\ last.ret.value.githubUrl \in GitHubUrls
    /\ last.ret.value.accessCount = 2

(***************************************************************************)
(* C11  updateGitHubUrl(key, url): on a key that is not in the index it    *)
(* returns false, creates no entry and changes nothing (index, aggregates, *)
(* blobs, index document); on a key that is in the index it returns true   *)
(* and changes the githubUrl of that entry and nothing else of the index,  *)
(* the aggregates or the blobs.                                            *)
(***************************************************************************)
C11_AttachStep ==
    last'.op = "updateGitHubUrl" =>
        IF MapHas(cacheIndex, last'.url)
        THEN /\ last'.ret = Ret("boolean", TRUE)
             /\ Len(cacheIndex') = Len(cacheIndex)
             /\ \A i \in 1..Len(cacheIndex) :
                   cacheIndex'[i] = IF cacheIndex[i].url = last'.url
                                    THEN [cacheIndex[i] EXCEPT
                                              !.githubUrl = last'.arg.githubUrl]
                                    ELSE cacheIndex[i]
             /\ cacheMetadata' = cacheMetadata
             /\ blobs' = blobs
        ELSE /\ last'.ret = Ret("boolean", FALSE)
             /\ UNCHANGED <<cacheIndex, cacheMetadata, blobs, persisted>>

C11_AttachFrame == [][C11_AttachStep]_vars

\* updateGitHubUrl has just failed on a key that is not in the index, next to
\* an entry that keeps the URL it was given earlier
C11_Witness ==
    /\ last.op = "updateGitHubUrl"
    /\ last.ret = Ret("boolean", FALSE)
    /\ ~MapHas(cacheIndex, last.url)
    /\ \E c \in Range(cacheIndex) : c.githubUrl \in GitHubUrls /\ c.accessCount = 2

(***************************************************************************)
(* C12  remove(key) on a key that is in the index removes its row and      *)
(* takes its size and its count out of the aggregates, also when the       *)
(* deletion of the blob fails (the blob is already gone); and no entry an  *)
(* eviction pass tried to remove is left in the index.                     *)
(* The code breaks it: when vault.adapter.remove rejects, remove returns   *)
(* false from its catch block, before the aggregates and the index are     *)
(* touched.                                                                *)
(***************************************************************************)
C12_RemoveStep ==
    /\ (last'.op = "remove" /\ MapHas(cacheIndex, last'.url)) =>
          /\ ~MapHas(cacheIndex', last'.url)
          /\ cacheMetadata'.totalSize =
                 cacheMetadata.totalSize - MapGet(cacheIndex, last'.url).size
          /\ cacheMetadata'.imageCount = cacheMetadata.imageCount - 1
    /\ last'.pass.ran =>
          \A url \in Range(last'.pass.failed) : ~MapHas(cacheIndex', url)

C12_MissingBlobTolerated == [][C12_RemoveStep]_vars

(***************************************************************************)
(* C13  When writeBinary fails during add, add throws to its caller and    *)
(* the index, totalSize, imageCount, the index document and the blobs are  *)
(* as they were; an add that returns an entry has written the blob of its  *)
(* key (which is then in the cache directory with the payload's length,    *)
(* unless the pass of this add removed the entry again).                   *)
(***************************************************************************)
C13_AddStep ==
    last'.op = "add" =>
        \/ /\ last'.ret.kind = "throws"
           /\ UNCHANGED <<cacheIndex, cacheMetadata, persisted, blobs>>
        \/ /\ last'.ret.kind = "entry"
           /\ \/ /\ last'.pass.ran
                 /\ last'.url \in Range(last'.pass.evicted)
              \/ /\ localPath(last'.url) \in DOMAIN blobs'
                 /\ blobs'[localPath(last'.url)] = last'.arg.size

C13_BlobWriteFailure == [][C13_AddStep]_vars

\* add has thrown for a key that is not in the index, next to an entry that
\* was added before
C13_Witness ==
    /\ last.op = "add"
    /\ last.ret.kind = "throws"
    /\ ~MapHas(cacheIndex, last.url)
    /\ cacheIndex # <<>>
    /\ persisted # NoDoc

(***************************************************************************)
(* C14  Persist failure is surfaced: a call of add, get, remove,           *)
(* updateGitHubUrl or checkAndCleanup that changed the index or the        *)
(* aggregates and left an index document that does not hold them (its      *)
(* write of index.json failed) reports a failure to its caller: it throws  *)
(* or returns false.                                                       *)
(* The code breaks it: saveCacheIndex catches the rejected write and logs  *)
(* it, and the call returns as it does when the write succeeds.            *)
(***************************************************************************)
MutatingOps == {"add", "get", "remove", "updateGitHubUrl", "checkAndCleanup"}

C14_PersistStep ==
    (/\ last'.op \in MutatingOps
     /\ <<cacheIndex', cacheMetadata'>> # <<cacheIndex, cacheMetadata>>
     /\ persisted' # IndexDocument(cacheMetadata', cacheIndex'))
    => \/ last'.ret.kind = "throws"
       \/ last'.ret.kind = "boolean" /\ last'.ret.value = FALSE

C14_PersistFailureSurfaced == [][C14_PersistStep]_vars

(***************************************************************************)
(* C15  When index.json is missing or does not parse, initialize completes *)
(* without throwing and the cache starts with an empty index and the       *)
(* metadata of the constructor (totalSize 0, imageCount 0).                *)
(* (An initialize that found no document, or a damaged one, leaves it as   *)
(* it found it: with an empty index nothing is written.)                   *)
(***************************************************************************)
C15_LoadStep ==
    (last'.op = "initialize" /\ persisted' \in {NoDoc, CorruptDoc})
    => /\ last'.ret.kind = "void"
       /\ cacheIndex' = <<>>
       /\ cacheMetadata'.totalSize = 0
       /\ cacheMetadata'.imageCount = 0
       /\ cacheMetadata' = Constructed(blobs, persisted', now).meta

C15_MissingOrCorruptDocument == [][C15_LoadStep]_vars

\* initialize has run over a damaged document in a cache directory that holds
\* blobs
C15_Witness ==
    /\ last.op = "initialize"
    /\ last.ret.kind = "void"
    /\ persisted = CorruptDoc
    /\ blobs # NoBlobs
    /\ cacheIndex = <<>>

(***************************************************************************)
(* C16  Round-trip persistence: when a CacheManager whose index.json is    *)
(* the document saveCacheIndex wrote for its index and metadata is         *)
(* replaced by a new one that loads that document, the new one has the     *)
(* same keys in the same order, the same fields in every entry and the     *)
(* same metadata.  (What was loaded is what initialize ends with or, when  *)
(* the cleanup of initialize ran, what that pass started from.)            *)
(***************************************************************************)
C16_RoundTripStep ==
    (/\ last'.op = "initialize"
     /\ persisted = IndexDocument(cacheMetadata, cacheIndex)
     /\ persisted' # CorruptDoc)
    => IF last'.pass.ran
       THEN /\ last'.pass.before = cacheIndex
            /\ last'.pass.totalBefore = cacheMetadata.totalSize
       ELSE /\ cacheIndex' = cacheIndex
            /\ cacheMetadata' = cacheMetadata

C16_RoundTripPersistence == [][C16_RoundTripStep]_vars

\* a new CacheManager has loaded a document of two entries, one with and one
\* without a GitHub URL, one of them read since it was added
C16_Witness ==
    /\ last.op = "initialize"
    /\ ~last.pass.ran
    /\ persisted = IndexDocument(cacheMetadata, cacheIndex)
    /\ Len(cacheIndex) = 2
    /\ \E c \in Range(cacheIndex) : c.githubUrl = Undefined
    /\ \E c \in Range(cacheIndex) : c.githubUrl # Undefined
    /\ \E c \in Range(cacheIndex) : c.accessCount = 2

(***************************************************************************)
(* C17  clearAll removes every entry, the ones inside the protection       *)
(* window included: when clearAll has completed the index is empty.        *)
(* The code breaks it when the deletion of a blob fails: clearAll calls    *)
(* remove for every key and does not look at what it returns, and a remove *)
(* whose blob deletion failed has left its row in the index.               *)
(***************************************************************************)
C17_ClearAllEmpties == last.op = "clearAll" => cacheIndex = <<>>

(***************************************************************************)
(* C18  Blob exclusivity: in every reachable state no two entries of the   *)
(* index with different keys have the same localPath.                      *)
(* The code breaks it: the file name is the 32-bit simpleHash of the URL   *)
(* and its extension, and different URLs can have the same hash            *)
(* (https://a/Aa.png and https://a/BB.png both give bmionc.png).           *)
(***************************************************************************)
C18_BlobExclusivity ==
    \A c1 \in Range(cacheIndex), c2 \in Range(cacheIndex) :
        c1.url # c2.url => c1.localPath # c2.localPath

(***************************************************************************)
(* C19  Index/blob consistency: after every completed add, remove,         *)
(* eviction pass or clearAll, whether it succeeded or failed, every entry  *)
(* of the index has its blob in the cache directory and every blob of the  *)
(* cache directory is the blob of an entry of the index.                   *)
(* The code breaks it for two keys with the same file name: removing one   *)
(* deletes the blob of the other.                                          *)
(***************************************************************************)
C19_IndexBlobConsistency ==
    last.op \in {"add", "remove", "checkAndCleanup", "clearAll"}
        => {c.localPath : c \in Range(cacheIndex)} = DOMAIN blobs

(***************************************************************************)
(* C20  Crash recoverability of add: when the process ends inside add      *)
(* after the blob was written and before the index document is, the        *)
(* document is the one that was there; it does not mention the key when    *)
(* the key was not in the index, the blob of the key is in the cache       *)
(* directory, and every localPath the document mentions has its blob: the  *)
(* leftover is a blob without reference, never a reference without blob.   *)
(***************************************************************************)
\* the keys and the blob paths an index document mentions
DocKeys(doc) ==
    IF doc \in {NoDoc, CorruptDoc} THEN {} ELSE {doc.index[i][1] : i \in 1..Len(doc.index)}

DocPaths(doc) ==
    IF doc \in {NoDoc, CorruptDoc}
    THEN {}
    ELSE {doc.index[i][2].localPath : i \in 1..Len(doc.index)}

C20_CrashStep ==
    last'.op = "addInterrupted" =>
        /\ persisted' = persisted
        /\ ~MapHas(cacheIndex, last'.url) => last'.url \notin DocKeys(persisted')
        /\ localPath(last'.url) \in DOMAIN blobs'
        /\ DocPaths(persisted') \subseteq DOMAIN blobs'

C20_CrashRecoverableAdd == [][C20_CrashStep]_vars

\* the process has ended inside add of a key the document does not mention,
\* next to a document that mentions another key: the new blob has no reference
C20_Witness ==
    /\ last.op = "addInterrupted"
    /\ last.url \notin DocKeys(persisted)
    /\ DocKeys(persisted) # {}
    /\ localPath(last.url) \in DOMAIN blobs
    /\ localPath(last.url) \notin DocPaths(persisted)

\* C21: whenever no operation is in progress (index writes succeed), the
\* persisted index document equals the index and the metadata in memory: it is
\* the document saveCacheIndex would write now, or nothing was ever written and
\* the cache is as it was constructed.  This includes the state after the
\* downloader has set an entry's githubUrl following an upload.
C21_PersistAfterMutation ==
    tasks = NoTasks =>
        \/ persisted = IndexDocument(cacheMetadata, cacheIndex)
        \/ /\ persisted = NoDoc
           /\ cacheIndex = <<>>
           /\ cacheMetadata.totalSize = 0
           /\ cacheMetadata.imageCount = 0

\* C22: at most one _processExternalImage per URL is in flight at any time,
\* and it is the promise downloadQueue holds for the URL; a call of
\* processExternalImage for a URL whose promise has not settled starts no
\* operation and does no cache lookup: the caller awaits that promise, and
\* when the promise settles every caller that awaits it has returned with its
\* one result.
C22_InFlightDeduplication ==
    [][/\ \A a, b \in Ops' : tasks'[a].url = tasks'[b].url => a = b
       /\ \A a \in Ops' :
             /\ tasks'[a].url \in DOMAIN downloadQueue'
             /\ downloadQueue'[tasks'[a].url] = a
       /\ \A url \in DOMAIN downloadQueue :
             (last'.op = "processExternalImage" /\ last'.url = url) =>
                 /\ tasks' = [tasks EXCEPT ![downloadQueue[url]].awaiting = Append(@, 0)]
                 /\ downloadQueue' = downloadQueue
                 /\ cacheIndex' = cacheIndex
                 /\ blobs' = blobs
                 /\ persisted' = persisted
       /\ last'.op = "_processExternalImage" =>
             \E id \in Ops :
                /\ tasks[id].url = last'.url
                /\ last'.ret.value.awaiting = tasks[id].awaiting
                /\ id \notin DOMAIN tasks'
                /\ last'.url \notin DOMAIN downloadQueue'
      ]_vars

\* two callers outside a batch have awaited one promise, which has settled
\* after a download
C22_Witness ==
    /\ last.op = "_processExternalImage"
    /\ last.arg.size > 0
    /\ Len(last.ret.value.awaiting) >= 2
    /\ last.ret.value.awaiting[2] = 0

\* C23: while processMultiple runs, at most 3 of its processExternalImage
\* calls are in flight, and they are URLs of the group started last: no URL
\* of a later group is in flight together with a URL of an earlier group.
C23_BatchConcurrencyCap ==
    \A b \in Batches :
        /\ Cardinality(Pending) <= 3
        /\ \A i \in Pending :
              /\ (tasks[b].chunk - 1) * 3 < i
              /\ i <= tasks[b].chunk * 3
              /\ i <= Len(tasks[b].urls)

\* the second group of a batch is in flight, after the three URLs of the first
\* group have settled
C23_Witness ==
    \E b \in Batches :
        /\ tasks[b].chunk = 2
        /\ Len(tasks[b].urls) > 3
        /\ Pending = {4}

\* a download of url ended well with the cache enabled and the upload failed
UploadFailed(call) ==
    /\ call.op = "_processExternalImage"
    /\ call.arg.size > 0
    /\ call.arg.upload = "fails"
    /\ settings.enableCache

\* the pass of this call evicted url
EvictedBy(call, url) ==
    call.pass.ran /\ url \in Range(call.pass.evicted)

C25_FilenameNeverFails ==
    /\ evaluated.fn = "generateFilename" =>
          /\ ~evaluated.value.threw
          /\ Len(evaluated.value.value) > 0
    /\ last.op = "add" =>
          /\ last.ret.kind = "entry"
          /\ MapHas(cacheIndex, last.url) \/ EvictedBy(last, last.url)

\* png
GenericExtension == <<112, 110, 103>>

\* png, jpg, jpeg, gif, webp, svg, bmp
ImageExtensions ==
    {GenericExtension, <<106, 112, 103>>, <<106, 112, 101, 103>>, <<103, 105, 102>>,
     <<119, 101, 98, 112>>, <<115, 118, 103>>, <<98, 109, 112>>}

\* what follows the last "." of the path, <<>> when the path has no "."
TrailingExtension(path) ==
    IF PlacesOf(path, 46) = {}
    THEN <<>>
    ELSE SubSeq(path, Max(PlacesOf(path, 46)) + 1, Len(path))

\* C26: the file name of a well-formed URL is hash.png when the URL's path
\* has no trailing extension (no "." in the path) or an extension that is
\* not an image extension, and hash.<the path's extension> otherwise.
C26_DefaultExtension ==
    (evaluated.fn = "generateFilename" /\ ~evaluated.value.threw) =>
        LET extension == TrailingExtension(pathname(evaluated.arg))
        IN evaluated.value.value =
              simpleHash(evaluated.arg) \o <<46>>
                 \o (IF extension \in ImageExtensions THEN extension ELSE GenericExtension)

\* C27: in every reachable state every entry of the index has
\* createdAt <= lastAccessedAt, accessCount >= 1 and size >= 0, and no step
\* lowers the lastAccessedAt of an entry that stays in the index, unless the
\* step is an add of its key.
C27_EntryFieldInvariants ==
    [][/\ \A cached \in Range(cacheIndex') :
             /\ cached.createdAt <= cached.lastAccessedAt
             /\ cached.accessCount >= 1
             /\ cached.size >= 0
       /\ \A url \in Keys :
             (/\ MapHas(cacheIndex, url)
              /\ MapHas(cacheIndex', url)
              /\ ~(last'.op = "add" /\ last'.url = url)) =>
                 MapGet(cacheIndex', url).lastAccessedAt
                    >= MapGet(cacheIndex, url).lastAccessedAt
      ]_vars

\* an entry has just been read, later than it was created
C27_Witness ==
    /\ last.op = "get"
    /\ MapHas(cacheIndex, last.url)
    /\ MapGet(cacheIndex, last.url).createdAt < MapGet(cacheIndex, last.url).lastAccessedAt
    /\ MapGet(cacheIndex, last.url).accessCount = 2

\* the two entries are alike but for the field named
AlikeBut(a, b, field) ==
    /\ field = "accessCount" => a.lastAccessedAt = b.lastAccessedAt
    /\ field = "lastAccessedAt" => a.accessCount = b.accessCount

\* C28: of two entries scored at the same time that differ only in
\* accessCount, the one with the larger accessCount does not have the smaller
\* Smart score; of two that differ only in lastAccessedAt, the one accessed
\* longer ago does not have the larger score.
C28_SmartScoreMonotonicity ==
    evaluated.fn = "calculateSmartScore" =>
        LET a == evaluated.arg.a
            b == evaluated.arg.b
        IN /\ (AlikeBut(a, b, "accessCount") /\ a.accessCount <= b.accessCount) =>
                 evaluated.value.a <= evaluated.value.b
           /\ (AlikeBut(a, b, "lastAccessedAt") /\ a.lastAccessedAt >= b.lastAccessedAt) =>
                 evaluated.value.a >= evaluated.value.b

\* two entries that differ in accessCount only, and two that differ in
\* lastAccessedAt only, have been scored, and the scores differ
C28_Witness ==
    /\ evaluated.fn = "calculateSmartScore"
    /\ evaluated.value.a < evaluated.value.b
    /\ \/ /\ AlikeBut(evaluated.arg.a, evaluated.arg.b, "accessCount")
          /\ evaluated.arg.a.accessCount < evaluated.arg.b.accessCount
       \/ /\ AlikeBut(evaluated.arg.a, evaluated.arg.b, "lastAccessedAt")
          /\ evaluated.arg.a.lastAccessedAt < evaluated.arg.b.lastAccessedAt

\* the calls of add for url
AddsOf(url) == {id \in Adds : tasks[id].url = url}

\* the call of add for url that put its entry into the index last
LastSetter(url) ==
    CHOOSE id \in AddsOf(url) : \A other \in AddsOf(url) : tasks[other].order <= tasks[id].order

\* two calls of add for url overlapped and both have returned
BothCompleted(url) ==
    /\ Cardinality(AddsOf(url)) >= 2
    /\ \A id \in Adds : tasks[id].pc = "done"

\* the row of url holds what the entry wrote that add built
RowWrittenBy(url, cached) ==
    /\ MapHas(cacheIndex, url)
    /\ MapGet(cacheIndex, url).size = cached.size
    /\ MapGet(cacheIndex, url).createdAt = cached.createdAt
    /\ MapGet(cacheIndex, url).localPath = cached.localPath
    /\ MapGet(cacheIndex, url).githubUrl = cached.githubUrl

OneRowPerKey ==
    \A url \in Keys : Cardinality({i \in 1..Len(cacheIndex) : cacheIndex[i].url = url}) <= 1

\* C29: after two overlapping calls of add for one key have both
\* returned, the index holds exactly one row for the key, with the fields
\* written by the call that put its entry into the index last.
C29_SameKeyAddRace ==
    /\ OneRowPerKey
    /\ \A url \in Keys :
          BothCompleted(url) => RowWrittenBy(url, tasks[LastSetter(url)].cached)

\* the row that a removal step of a pass found under the key was within the
\* protection period at that time
RemovedWhileProtected(call) ==
    /\ call.op = "remove"
    /\ call.ret.kind = "entry"
    /\ now - call.ret.value.lastAccessedAt < settings.cacheProtectionDays * DayMs

\* C30: a cleanup pass decides eligibility once, at its start: when
\* adapter.remove returns for a candidate, the candidate's key is taken out of
\* the index and its blob deleted whatever the row's lastAccessedAt is by
\* then, also when a get has refreshed it since the candidates were selected
\* and the row is within the protection period again.
C30_GetCleanupRace ==
    [][last'.op = "remove" =>
          /\ ~MapHas(cacheIndex', last'.url)
          /\ \E id \in Adds :
                /\ tasks[id].pc = "remove"
                /\ Head(tasks[id].sorted).url = last'.url
                /\ tasks'[id].evicted = Append(tasks[id].evicted, last'.url)
                /\ tasks[id].removing.localPath \notin DOMAIN blobs'
      ]_vars

\* a get refreshed an entry after the pass had selected it, and the pass has
\* removed it: the row removed had been read twice and was within the
\* protection period
C30_Witness ==
    /\ RemovedWhileProtected(last)
    /\ settings.cacheProtectionDays > 0
    /\ last.ret.value.accessCount >= 2
    /\ last.ret.value.lastAccessedAt = now
    /\ ~MapHas(cacheIndex, last.url)

\* totalSize and imageCount are those of the index
Exact(meta, index) ==
    /\ meta.totalSize = SumOfSizes(index)
    /\ meta.imageCount = Len(index)

\* the step is an add of a key that is in the index
ReAddStep == last'.op = "add" /\ MapHas(cacheIndex, last'.url)

\* C31: without re-adds the accounting is exact: a call of add for a key
\* that is not in the index, of get, remove, checkAndCleanup or clearAll that
\* starts with totalSize the sum of the entries' sizes and imageCount their
\* number ends with them so; they are so after construction, hence after
\* every sequence of such calls.
C31_ExactWithoutReAdds ==
    [][(Exact(cacheMetadata, cacheIndex) /\ ~ReAddStep)
          => Exact(cacheMetadata', cacheIndex')]_vars

\* a cleanup pass has evicted an entry and left another, and the accounting
\* is exact
C31_Witness ==
    /\ PassRan
    /\ Len(last.pass.evicted) > 0
    /\ Len(cacheIndex) > 0
    /\ Exact(cacheMetadata, cacheIndex)

\* C32: no double decrement under interleaving: when adapter.remove returns
\* to a removal whose key another removal has taken out of the index in the
\* meantime, totalSize and imageCount stay as they are, and they are never
\* negative.
C32_NoDoubleDecrement ==
    [][/\ (last'.op = "remove" /\ ~MapHas(cacheIndex, last'.url)) =>
             /\ cacheMetadata'.totalSize = cacheMetadata.totalSize
             /\ cacheMetadata'.imageCount = cacheMetadata.imageCount
       /\ cacheMetadata'.totalSize >= 0
       /\ cacheMetadata'.imageCount >= 0
      ]_vars

\* C33: after two overlapping calls of add for one key with payloads of
\* different length have both returned, the size in the key's row of the
\* index is the length of the file at its localPath.
C33_SizeMatchesBlob ==
    \A url \in Keys :
        (/\ BothCompleted(url)
         /\ \E a, b \in AddsOf(url) : tasks[a].size # tasks[b].size
         /\ MapHas(cacheIndex, url)
         /\ MapGet(cacheIndex, url).localPath \in DOMAIN blobs)
        => MapGet(cacheIndex, url).size = blobs[MapGet(cacheIndex, url).localPath]

\* C34: when a process ends inside remove, at whatever point, the persisted
\* index document mentions no key whose blob has been deleted: the key that
\* was being removed is not in the document, or its blob is still there.
C34_CrashDuringRemoval ==
    [][last'.op = "removeInterrupted" =>
          \/ last'.url \notin DocKeys(persisted')
          \/ localPath(last'.url) \in DOMAIN blobs'
      ]_vars

\* the key of a completed add is in the index, its blob is in the cache
\* directory, and the pass of that add did not evict it
AddedIsLive ==
    /\ ~EvictedBy(last', last'.url)
    /\ MapHas(cacheIndex', last'.url)
    /\ localPath(last'.url) \in DOMAIN blobs'

C36_ClearAllZeroes ==
    last.op = "clearAll" =>
        LET stats == getStats(cacheIndex, cacheMetadata)
        IN /\ stats.totalSize = 0
           /\ stats.imageCount = 0
           /\ stats.averageSize = 0

\* C37: load re-establishes the aggregates: after initialize has loaded a
\* persisted document that parses, whatever its metadata says, totalSize is
\* the sum of the loaded entries' sizes and imageCount is their number.
C37_LoadReestablishes ==
    (last.op = "initialize" /\ persisted \notin {NoDoc, CorruptDoc}) =>
        Exact(cacheMetadata, cacheIndex)

\* the URLs that an operation in flight works on
UrlsInFlight == {tasks[id].url : id \in Ops}

\* the step is a call of processExternalImage for a URL with no operation in flight
FreshRequest ==
    /\ last'.op = "processExternalImage"
    /\ last'.url \notin UrlsInFlight

\* C38: the in-flight map drains: when the operation for a URL settles, with
\* a result of success or of failure, the URL leaves downloadQueue; the map
\* holds exactly the URLs of the operations in flight, so it is empty when no
\* call is pending; and a request for a URL whose operation has settled starts
\* a new operation.
C38_QueueDrains ==
    [][/\ last'.op = "_processExternalImage" => last'.url \notin DOMAIN downloadQueue'
       /\ DOMAIN downloadQueue' =
             {tasks'[id].url : id \in {i \in DOMAIN tasks' : tasks'[i].kind = "op"}}
       /\ FreshRequest =>
             /\ last'.url \in DOMAIN downloadQueue'
             /\ downloadQueue'[last'.url] \in DOMAIN tasks'
             /\ tasks'[downloadQueue'[last'.url]].awaiting = <<0>>
             /\ Cardinality({id \in DOMAIN tasks' : tasks'[id].kind = "op"})
                   = Cardinality(Ops) + 1]_vars

\* a request for an image that an earlier, settled operation put in the cache
\* has started an operation of its own, and nothing else is in flight
C38_Witness ==
    /\ last.op = "processExternalImage"
    /\ MapHas(cacheIndex, last.url)
    /\ DOMAIN downloadQueue = {last.url}
    /\ Ops = {downloadQueue[last.url]}
    /\ tasks[downloadQueue[last.url]].awaiting = <<0>>

\* the step is a round of a sync run in which uploadImage was called
UploadStep == last'.op = "uploadImage" /\ last'.ret.kind \in {"uploaded", "upload failed"}

\* the entry of the key the step is about had a githubUrl before the step
AlreadySynced ==
    /\ MapHas(cacheIndex, last'.url)
    /\ MapGet(cacheIndex, last'.url).githubUrl # Undefined

\* C39: sync uploads each cache-only entry at most once: an upload is made
\* only for an entry with no githubUrl, so none for an entry that an earlier
\* run synced; the URL of an upload that succeeded is attached to the entry;
\* and after an upload that failed the run goes on with its next entry.
C39_SyncUploadsOnce ==
    [][/\ UploadStep => ~AlreadySynced
       /\ (last'.op = "uploadImage" /\ last'.ret.kind = "uploaded"
              /\ MapHas(cacheIndex, last'.url)) =>
             /\ MapHas(cacheIndex', last'.url)
             /\ MapGet(cacheIndex', last'.url).githubUrl = "gh"
       /\ (last'.op = "uploadImage" /\ last'.ret.kind # "uploaded"
              /\ tasks[last'.ret.value.run].at < Len(tasks[last'.ret.value.run].images)) =>
             /\ last'.ret.value.run \in DOMAIN tasks'
             /\ tasks'[last'.ret.value.run].at = tasks[last'.ret.value.run].at + 1]_vars

====
